---- MODULE Spec2Model ----
(***************************************************************************)
(* Model of the Fortnite scorecard processor (src/fortnite_processor.py):  *)
(* the duplicate-image guard of process_image, the username normalizer,    *)
(* the aggregation of export_to_csv and the merge-and-rewrite of           *)
(* export_to_google_sheets against a Google Sheet.                         *)
(*                                                                         *)
(* Strings are sequences of one-character strings, so that the normalizer  *)
(* is computed character by character as the Python code computes it.      *)
(***************************************************************************)
EXTENDS Integers, Sequences, FiniteSets, TLC

(***************************************************************************)
(* Characters and elementary string functions of Python.                   *)
(***************************************************************************)
LowerLetters ==
    <<"a","b","c","d","e","f","g","h","i","j","k","l","m",
      "n","o","p","q","r","s","t","u","v","w","x","y","z">>

UpperLetters ==
    <<"A","B","C","D","E","F","G","H","I","J","K","L","M",
      "N","O","P","Q","R","S","T","U","V","W","X","Y","Z">>

DigitChars == <<"0","1","2","3","4","5","6","7","8","9">>

Digits == {"0","1","2","3","4","5","6","7","8","9"}

\* str(n) for n >= 0, as the sheet shows an integer cell
RECURSIVE FormatInt(_)
FormatInt(n) ==
    IF n < 10 THEN <<DigitChars[n + 1]>>
    ELSE FormatInt(n \div 10) \o <<DigitChars[(n % 10) + 1]>>

\* a cell that reads as a non-negative integer
IsNumericCell(cell) == cell # <<>> /\ \A i \in DOMAIN cell : cell[i] \in Digits

DigitValue(c) == (CHOOSE i \in DOMAIN DigitChars : DigitChars[i] = c) - 1

\* int(cell) for a cell of digits
RECURSIVE ParseInt(_)
ParseInt(cell) ==
    IF cell = <<>> THEN 0
    ELSE 10 * ParseInt(SubSeq(cell, 1, Len(cell) - 1)) + DigitValue(cell[Len(cell)])

Range(s) == {s[i] : i \in DOMAIN s}

IsLetter(c) == c \in Range(LowerLetters) \cup Range(UpperLetters)

\* str.lower() on one character
LowerChar(c) ==
    IF c \in Range(UpperLetters)
    THEN LowerLetters[CHOOSE i \in DOMAIN UpperLetters : UpperLetters[i] = c]
    ELSE c

\* str.lower()
Lower(s) == [i \in DOMAIN s |-> LowerChar(s[i])]

\* str.strip(): drop leading and trailing blanks
Strip(s) ==
    LET nb == {i \in DOMAIN s : s[i] # " "}
    IN IF nb = {} THEN <<>>
       ELSE LET lo == CHOOSE i \in nb : \A j \in nb : i <= j
                hi == CHOOSE i \in nb : \A j \in nb : i >= j
            IN SubSeq(s, lo, hi)

\* str.startswith / str.endswith / the "in" operator on strings
StartsWith(s, p) == Len(p) <= Len(s) /\ SubSeq(s, 1, Len(p)) = p

EndsWith(s, p) == Len(p) <= Len(s) /\ SubSeq(s, Len(s) - Len(p) + 1, Len(s)) = p

Contains(s, p) ==
    \E i \in 1..(Len(s) - Len(p) + 1) : SubSeq(s, i, i + Len(p) - 1) = p

\* s[n:] and s[:-n]
DropFirst(s, n) == SubSeq(s, n + 1, Len(s))

DropLast(s, n) == SubSeq(s, 1, Len(s) - n)

\* re.sub(r'[^a-zA-Z]', '', s)
LettersOnly(s) == SelectSeq(s, IsLetter)

\* re.sub(r'(.)\1{3,}', r'\1', s): a run of four or more equal characters
\* is replaced by one occurrence
RECURSIVE CollapseRuns(_)
CollapseRuns(s) ==
    IF s = <<>> THEN <<>>
    ELSE LET same == {n \in 1..Len(s) : \A i \in 1..n : s[i] = s[1]}
             run  == CHOOSE n \in same : \A m \in same : m <= n
         IN IF run >= 4
            THEN <<s[1]>> \o CollapseRuns(DropFirst(s, run))
            ELSE <<s[1]>> \o CollapseRuns(DropFirst(s, 1))

(***************************************************************************)
(* normalize_username: the tables.                                         *)
(***************************************************************************)
placeholder_words ==
    << <<"a","n","o","n","y","m","o","u","s">>,
       <<"p","l","a","y","e","r">>,
       <<"n","e","w","p","l","a","y","e","r">> >>

player_key == <<"p","l","a","y","e","r">>

\* the table without its entry for 'amdibbs'
specific_fixes_NoDibbs ==
    { << <<"n","v","f","j","j">>, <<"j","j">> >>,
      << <<"d","o","b","y">>, <<"d","o","b">> >>,
      << <<"z","q","u","i","n","t","i","n">>, <<"q","u","i","n","t","i","n">> >>,
      << <<"q","u","i","n","t","i","n">>, <<"q","u","i","n","t","i","n">> >>,
      << <<"s","k","i","t","t","l","e">>, <<"s","k","i","t","l","e">> >>,
      << <<"s","k","e","l","e","t","o","s">>, <<"s","k","e","l","e","t","o">> >>,
      << <<"a","m","d","a","r","k","c","e","l">>, <<"d","a","r","k","c","e","l","y">> >>,
      << <<"a","m","d","a","r","k","c","e","l","y">>, <<"d","a","r","k","c","e","l","y">> >>,
      << <<"d","a","r","k","c","e","l">>, <<"d","a","r","k","c","e","l","y">> >>,
      << <<"d","a","r","k","c","e","l","y">>, <<"d","a","r","k","c","e","l","y">> >>,
      << <<"s","c","a","m","o">>, <<"c","a","m","o">> >>,
      << <<"l","e","g","e","n","d","x">>, <<"l","e","g","e","n","d">> >>,
      << <<"h","e","r","o","x">>, <<"h","e","r","o">> >> }

\* pairs <<normalized form, corrected form>>
specific_fixes ==
    { << <<"a","m","d","i","b","b","s">>, <<"d","i","b","b","s">> >>,
      << <<"n","v","f","j","j">>, <<"j","j">> >>,
      << <<"d","o","b","y">>, <<"d","o","b">> >>,
      << <<"z","q","u","i","n","t","i","n">>, <<"q","u","i","n","t","i","n">> >>,
      << <<"q","u","i","n","t","i","n">>, <<"q","u","i","n","t","i","n">> >>,
      << <<"s","k","i","t","t","l","e">>, <<"s","k","i","t","l","e">> >>,
      << <<"s","k","e","l","e","t","o","s">>, <<"s","k","e","l","e","t","o">> >>,
      << <<"a","m","d","a","r","k","c","e","l">>, <<"d","a","r","k","c","e","l","y">> >>,
      << <<"a","m","d","a","r","k","c","e","l","y">>, <<"d","a","r","k","c","e","l","y">> >>,
      << <<"d","a","r","k","c","e","l">>, <<"d","a","r","k","c","e","l","y">> >>,
      << <<"d","a","r","k","c","e","l","y">>, <<"d","a","r","k","c","e","l","y">> >>,
      << <<"s","c","a","m","o">>, <<"c","a","m","o">> >>,
      << <<"l","e","g","e","n","d","x">>, <<"l","e","g","e","n","d">> >>,
      << <<"h","e","r","o","x">>, <<"h","e","r","o">> >> }

\* '0'->'o', '1'->'i', '5'->'s', '3'->'e', '7'->'t', '8'->'b', '6'->'g'
ocr_replacements(c) ==
    CASE c = "0" -> "o" [] c = "1" -> "i" [] c = "5" -> "s" [] c = "3" -> "e"
      [] c = "7" -> "t" [] c = "8" -> "b" [] c = "6" -> "g" [] OTHER -> c

gaming_prefixes ==
    << <<"t","t","v">>, <<"t","w","i","t","c","h">>, <<"y","t">>,
       <<"y","o","u","t","u","b","e">>, <<"s","t","r","e","a","m">>,
       <<"l","i","v","e">>, <<"t","v">>, <<"d","v","s">>, <<"k","t","k">>,
       <<"g","v","g">>, <<"z","m","r">>, <<"f","a","z","e">>, <<"t","s","m">>,
       <<"n","r","g">>, <<"o","g">>, <<"c","l","a","n">>,
       <<"r","e","i","g","n">>, <<"t","e","a","m">>, <<"g","u","i","l","d">>,
       <<"s","q","u","a","d">>, <<"c","r","e","w">>, <<"p","r","o">>,
       <<"e","s","p","o","r","t","s">> >>

gaming_suffixes ==
    << <<"t","t","v">>, <<"t","w","i","t","c","h">>, <<"y","t">>,
       <<"y","o","u","t","u","b","e">>, <<"s","t","r","e","a","m">>,
       <<"t","v">>, <<"l","i","v","e">>, <<"p","r","o">>,
       <<"g","a","m","i","n","g">>, <<"g","a","m","e">>,
       <<"p","l","a","y","e","r">>, <<"g","o","d">>, <<"k","i","n","g">>,
       <<"q","u","e","e","n">>, <<"w","i","n">>, <<"w","i","n","s">>,
       <<"b","e","s","t">>, <<"t","o","p">>, <<"o","g">>,
       <<"o","f","f","i","c","i","a","l">> >>

short_prefixes == << <<"n","v","f">>, <<"g","v","g">>, <<"z","m","r">> >>

single_letters == {"z", "x", "q", "b", "c", "s"}

\* the characters of 'aeioudhmnprstl'
name_starts ==
    {"a","e","i","o","u","d","h","m","n","p","r","s","t","l"}

(***************************************************************************)
(* normalize_username: the stages, in the order of the code.               *)
(***************************************************************************)
\* "not username or not username.strip()"
IsBlank(username) == Strip(username) = <<>>

\* the first prefix of the list that matches and leaves 4+ characters is
\* removed, then the loop breaks
StripGamingPrefix(n) ==
    LET ok == {i \in DOMAIN gaming_prefixes :
                 /\ StartsWith(n, gaming_prefixes[i])
                 /\ Len(n) > Len(gaming_prefixes[i])
                 /\ Len(n) - Len(gaming_prefixes[i]) >= 4}
    IN IF ok = {} THEN n
       ELSE DropFirst(n, Len(gaming_prefixes[CHOOSE i \in ok : \A j \in ok : i <= j]))

StripGamingSuffix(n) ==
    LET ok == {i \in DOMAIN gaming_suffixes :
                 /\ EndsWith(n, gaming_suffixes[i])
                 /\ Len(n) > Len(gaming_suffixes[i])
                 /\ Len(n) - Len(gaming_suffixes[i]) >= 4}
    IN IF ok = {} THEN n
       ELSE DropLast(n, Len(gaming_suffixes[CHOOSE i \in ok : \A j \in ok : i <= j]))

StripXxWrapper(n) ==
    IF /\ Len(n) > 6
       /\ StartsWith(n, <<"x","x">>)
       /\ EndsWith(n, <<"x","x">>)
       /\ Len(n) - 4 >= 3
    THEN SubSeq(n, 3, Len(n) - 2)
    ELSE n

\* re.match(r'^[0-9]am', n) / re.match(r'^[0-9]kt', n), remainder of 4+
StripDigitCombo(n) ==
    IF /\ Len(n) > 6
       /\ n[1] \in Digits
       /\ SubSeq(n, 2, 3) \in {<<"a","m">>, <<"k","t">>}
       /\ Len(n) - 3 >= 4
    THEN DropFirst(n, 3)
    ELSE n

\* the loop breaks at the first of 'nvf', 'gvg', 'zmr' that matches and
\* leaves 4+ characters
StripShortPrefix(n) ==
    IF /\ Len(n) > 6
       /\ \E i \in DOMAIN short_prefixes : StartsWith(n, short_prefixes[i])
       /\ Len(n) - 3 >= 4
    THEN DropFirst(n, 3)
    ELSE n

StripSingleLetter(n) ==
    IF /\ Len(n) > 5
       /\ n[1] \in single_letters
       /\ Len(n) - 1 >= 4
       /\ n[2] \in name_starts
    THEN DropFirst(n, 1)
    ELSE n

StripTrailingYZ(n) ==
    IF /\ Len(n) > 4
       /\ n[Len(n)] \in {"y", "z"}
       /\ Len(n) - 1 >= 3
    THEN DropLast(n, 1)
    ELSE n

\* "Final safety check"
SafetyCheck(n, original) ==
    IF Len(n) < 2
    THEN LET cleaned == Lower(LettersOnly(original))
         IN IF Len(cleaned) >= 2 THEN cleaned ELSE Lower(original)
    ELSE n

normalize_username(username) ==
    IF IsBlank(username) THEN <<>>
    ELSE
      LET original   == Strip(username)
          normalized == Lower(LettersOnly(original))
      IN IF \E i \in DOMAIN placeholder_words :
                Contains(Lower(original), placeholder_words[i])
         THEN player_key
         ELSE IF \E f \in specific_fixes : f[1] = normalized
         THEN (CHOOSE f \in specific_fixes : f[1] = normalized)[2]
         ELSE
           LET n1 == [i \in DOMAIN normalized |-> ocr_replacements(normalized[i])]
               n2 == CollapseRuns(n1)
               n3 == StripGamingPrefix(n2)
               n4 == StripGamingSuffix(n3)
               n5 == StripXxWrapper(n4)
               n6 == StripDigitCombo(n5)
               n7 == StripShortPrefix(n6)
               n8 == StripSingleLetter(n7)
               n9 == StripTrailingYZ(n8)
           IN Strip(SafetyCheck(n9, original))

\* does the username get past the early returns, to the stripping stages
ReachesStages(username) ==
    /\ ~IsBlank(username)
    /\ ~\E i \in DOMAIN placeholder_words :
           Contains(Lower(Strip(username)), placeholder_words[i])
    /\ ~\E f \in specific_fixes : f[1] = Lower(LettersOnly(Strip(username)))

\* the value of `normalized` on reaching the number+letter step, the single
\* letter step and the trailing y / z step
Stages(username) ==
    LET normalized == Lower(LettersOnly(Strip(username)))
        n1 == [i \in DOMAIN normalized |-> ocr_replacements(normalized[i])]
        n2 == CollapseRuns(n1)
        n3 == StripGamingPrefix(n2)
        n4 == StripGamingSuffix(n3)
        n5 == StripXxWrapper(n4)
        n6 == StripDigitCombo(n5)
        n7 == StripShortPrefix(n6)
        n8 == StripSingleLetter(n7)
    IN [digit_combo |-> n5, single_letter |-> n7, trailing |-> n8]

(***************************************************************************)
(* Bounds of the model.                                                    *)
(***************************************************************************)
\* images submitted to process_image over the life of the processor
MaxImages == 2

\* export_to_google_sheets calls
MaxExports == 2

(***************************************************************************)
(* Usernames, player entries and oracle answers used as inputs.            *)
(***************************************************************************)
U_quintin == <<"q","u","i","n","t","i","n">>

U_2AMDIBBS == <<"2","A","M","D","I","B","B","S">>

U_DIBBS == <<"D","I","B","B","S">>

U_NVFJJ7 == <<"N","V","F","J","J","7">>

U_JJ == <<"J","J">>

U_ValidPlayer1 == <<"V","a","l","i","d","P","l","a","y","e","r","1">>

U_ValidPlayer2 == <<"V","a","l","i","d","P","l","a","y","e","r","2">>

U_Player1 == <<"P","l","a","y","e","r","1">>

U_Player2 == <<"P","l","a","y","e","r","2">>

U_123 == <<"1","2","3">>

U_Zed == <<"Z","e","d">>

U_empty == <<>>

U_spaces == <<" "," "," ">>

\* every username the inputs contain
KnownUsernames ==
    {U_quintin, U_2AMDIBBS, U_DIBBS, U_NVFJJ7, U_JJ, U_ValidPlayer1,
     U_ValidPlayer2, U_Player1, U_Player2, U_123, U_Zed, U_empty, U_spaces}

\* normalize_username on the usernames of the inputs, computed once
username_keys == [u \in KnownUsernames |-> normalize_username(u)]

\* one element of result['players']
Player(u, t, e, d, a, dmg, pl, df) ==
    [username |-> u, team |-> t, eliminations |-> e, deaths |-> d,
     assists |-> a, damage |-> dmg, plants |-> pl, defuses |-> df]

\* the images that can be submitted, named by their content hash 1..3, each
\* with the scoreboard it shows: what the oracle answers when it reads it
OracleAnswers ==
    << [players |-> << Player(U_quintin, "ATK", 5, 2, 1, 100, 0, 0),
                      Player(U_2AMDIBBS, "DEF", 3, 1, 2, 80, 0, 1),
                      Player(U_NVFJJ7, "DEF", 4, 0, 1, 90, 0, 0) >>,
       match_result |-> "DEFEAT"],
      [players |-> << Player(U_DIBBS, "ATK", 2, 4, 0, 40, 1, 0),
                      Player(U_JJ, "ATK", 1, 1, 3, 30, 0, 0),
                      Player(U_123, "DEF", 2, 2, 0, 20, 0, 0) >>,
       match_result |-> "VICTORY"],
      \* the input of test_empty_username_filtering
      [players |-> << Player(U_ValidPlayer1, "ATK", 5, 2, 3, 1200, 1, 0),
                      Player(U_empty, "DEF", 3, 1, 2, 800, 0, 1),
                      Player(U_spaces, "ATK", 4, 3, 1, 950, 0, 0),
                      Player(U_ValidPlayer2, "DEF", 2, 4, 5, 600, 2, 1) >>,
       match_result |-> "VICTORY"] >>

(***************************************************************************)
(* Python dicts are sequences of records with a "key" field, in insertion  *)
(* order.                                                                  *)
(***************************************************************************)
HasKey(d, k) == \E i \in DOMAIN d : d[i].key = k

IndexOf(d, k) == CHOOSE i \in DOMAIN d : d[i].key = k

Keys(d) == {d[i].key : i \in DOMAIN d}

\* round(num / den, 2) in hundredths; Python rounds the float, which for the
\* values met here (no total reaches 40) is round-half-even of the quotient
Round2(num, den) ==
    LET q == (100 * num) \div den
        r == (100 * num) % den
    IN IF 2 * r < den THEN q
       ELSE IF 2 * r > den THEN q + 1
       ELSE IF q % 2 = 0 THEN q ELSE q + 1

Max(a, b) == IF a >= b THEN a ELSE b

\* the entries of a result list in processing order, each with its match_info
RECURSIVE Entries(_)
Entries(results) ==
    IF results = <<>> THEN <<>>
    ELSE [i \in DOMAIN results[1].players |->
             [player |-> results[1].players[i],
              match_info |-> results[1].match_info]]
         \o Entries(Tail(results))

(***************************************************************************)
(* export_to_csv: aggregation, rows, sort.                                 *)
(***************************************************************************)
\* an aggregation that counts only the first entry of each identity key
AggregateCsvEntry_FirstOnly(acc, player, match_info) ==
    IF IsBlank(player.username) \/ HasKey(acc, username_keys[player.username])
    THEN acc
    ELSE Append(acc,
           [key |-> username_keys[player.username],
            username |-> player.username,
            team |-> player.team,
            games_played |-> 1,
            total_eliminations |-> player.eliminations,
            total_deaths |-> player.deaths,
            total_assists |-> player.assists,
            total_damage |-> player.damage,
            total_plants |-> player.plants,
            total_defuses |-> player.defuses,
            victories |-> IF match_info.match_result = "VICTORY" THEN 1 ELSE 0,
            defeats |-> IF match_info.match_result = "VICTORY" THEN 0 ELSE 1,
            last_seen |-> match_info.timestamp,
            first_seen |-> match_info.timestamp])

\* one iteration of the inner loop of export_to_csv
AggregateCsvEntry(player_aggregates, player, match_info) ==
    IF IsBlank(player.username) THEN player_aggregates
    ELSE
      LET username_key == username_keys[player.username]
      IN IF IsBlank(username_key) THEN player_aggregates
         ELSE
           LET d == IF HasKey(player_aggregates, username_key)
                    THEN player_aggregates
                    ELSE Append(player_aggregates,
                           [key |-> username_key,
                            username |-> player.username,
                            team |-> player.team,
                            games_played |-> 0,
                            total_eliminations |-> 0,
                            total_deaths |-> 0,
                            total_assists |-> 0,
                            total_damage |-> 0,
                            total_plants |-> 0,
                            total_defuses |-> 0,
                            victories |-> 0,
                            defeats |-> 0,
                            last_seen |-> match_info.timestamp,
                            first_seen |-> match_info.timestamp])
               i == IndexOf(d, username_key)
               won == match_info.match_result = "VICTORY"
           IN [d EXCEPT ![i] =
                 [@ EXCEPT !.games_played = @ + 1,
                           !.total_eliminations = @ + player.eliminations,
                           !.total_deaths = @ + player.deaths,
                           !.total_assists = @ + player.assists,
                           !.total_damage = @ + player.damage,
                           !.total_plants = @ + player.plants,
                           !.total_defuses = @ + player.defuses,
                           !.victories = IF won THEN @ + 1 ELSE @,
                           !.defeats = IF won THEN @ ELSE @ + 1,
                           !.last_seen = match_info.timestamp,
                           !.team = player.team]]

RECURSIVE FoldCsv(_, _)
FoldCsv(acc, entries) ==
    IF entries = <<>> THEN acc
    ELSE FoldCsv(AggregateCsvEntry(acc, entries[1].player, entries[1].match_info),
                 Tail(entries))

player_aggregates(results) == FoldCsv(<<>>, Entries(results))

CsvRow(stats) ==
    LET games == stats.games_played
    IN [username |-> stats.username,
        games_played |-> games,
        total_eliminations |-> stats.total_eliminations,
        total_assists |-> stats.total_assists,
        total_deaths |-> stats.total_deaths,
        total_plants |-> stats.total_plants,
        total_defuses |-> stats.total_defuses,
        avg_eliminations |-> Round2(stats.total_eliminations, games),
        avg_assists |-> Round2(stats.total_assists, games),
        avg_deaths |-> Round2(stats.total_deaths, games),
        avg_plants |-> Round2(stats.total_plants, games),
        avg_defuses |-> Round2(stats.total_defuses, games),
        kd_ratio |-> Round2(stats.total_eliminations, Max(stats.total_deaths, 1)),
        team |-> stats.team,
        total_damage |-> stats.total_damage,
        avg_damage |-> Round2(stats.total_damage, games),
        first_seen |-> stats.first_seen,
        last_seen |-> stats.last_seen]

\* a descending sort that puts a row before the earlier rows of equal kd_ratio
RECURSIVE SortByKd_TiesReversed(_)
SortByKd_TiesReversed(rows) ==
    IF rows = <<>> THEN <<>>
    ELSE LET sorted == SortByKd_TiesReversed(SubSeq(rows, 1, Len(rows) - 1))
             x == rows[Len(rows)]
             before == {i \in DOMAIN sorted : sorted[i].kd_ratio > x.kd_ratio}
             n == Cardinality(before)
         IN SubSeq(sorted, 1, n) \o <<x>> \o SubSeq(sorted, n + 1, Len(sorted))

\* list.sort(key=kd_ratio, reverse=True): stable, descending
RECURSIVE SortByKd(_)
SortByKd(rows) ==
    IF rows = <<>> THEN <<>>
    ELSE LET sorted == SortByKd(SubSeq(rows, 1, Len(rows) - 1))
             x == rows[Len(rows)]
             before == {i \in DOMAIN sorted : sorted[i].kd_ratio >= x.kd_ratio}
             n == Cardinality(before)
         IN SubSeq(sorted, 1, n) \o <<x>> \o SubSeq(sorted, n + 1, Len(sorted))

\* the rows export_to_csv writes for a non-empty result list
CsvRows(results) ==
    LET agg == player_aggregates(results)
    IN SortByKd([i \in DOMAIN agg |-> CsvRow(agg[i])])

(***************************************************************************)
(* create_summary_stats: the per-player summary cli.py prints at the end.  *)
(***************************************************************************)
\* all_players: the players of every result, in order
RECURSIVE all_players(_)
all_players(results) ==
    IF results = <<>> THEN <<>>
    ELSE results[1].players \o all_players(Tail(results))

\* one iteration of "for player in all_players"
SummaryEntry(player_stats, player) ==
    LET username == player.username
        d == IF HasKey(player_stats, username) THEN player_stats
             ELSE Append(player_stats,
                    [key |-> username,
                     games |-> 0,
                     total_eliminations |-> 0,
                     total_deaths |-> 0,
                     total_assists |-> 0,
                     total_damage |-> 0,
                     total_plants |-> 0,
                     total_defuses |-> 0])
        i == IndexOf(d, username)
    IN [d EXCEPT ![i] =
          [@ EXCEPT !.games = @ + 1,
                    !.total_eliminations = @ + player.eliminations,
                    !.total_deaths = @ + player.deaths,
                    !.total_assists = @ + player.assists,
                    !.total_damage = @ + player.damage,
                    !.total_plants = @ + player.plants,
                    !.total_defuses = @ + player.defuses]]

RECURSIVE FoldSummary(_, _)
FoldSummary(acc, players) ==
    IF players = <<>> THEN acc
    ELSE FoldSummary(SummaryEntry(acc, players[1]), Tail(players))

\* "Calculate averages"
SummaryAverages(stats) ==
    [key |-> stats.key,
     games |-> stats.games,
     total_eliminations |-> stats.total_eliminations,
     total_deaths |-> stats.total_deaths,
     total_assists |-> stats.total_assists,
     total_damage |-> stats.total_damage,
     total_plants |-> stats.total_plants,
     total_defuses |-> stats.total_defuses,
     avg_eliminations |-> Round2(stats.total_eliminations, stats.games),
     avg_deaths |-> Round2(stats.total_deaths, stats.games),
     avg_assists |-> Round2(stats.total_assists, stats.games),
     avg_damage |-> Round2(stats.total_damage, stats.games),
     kd_ratio |-> Round2(stats.total_eliminations, Max(stats.total_deaths, 1))]

create_summary_stats(results) ==
    LET player_stats == FoldSummary(<<>>, all_players(results))
    IN [i \in DOMAIN player_stats |-> SummaryAverages(player_stats[i])]

(***************************************************************************)
(* The Google Sheet: a header row and data rows.  A data row is a record   *)
(* over the 17 standard columns.  The username and the cumulative columns  *)
(* hold text, as the sheet shows them: they are parsed when the sheet is   *)
(* read and formatted when it is written.                                  *)
(***************************************************************************)
standard_headers ==
    <<"last_updated", "username", "games_played",
      "total_eliminations", "total_assists", "total_deaths",
      "total_plants", "total_defuses",
      "avg_eliminations", "avg_assists", "avg_deaths", "avg_plants",
      "avg_defuses", "kd_ratio", "team", "total_damage", "avg_damage">>

batch_size == 100

EmptySheet == [header |-> <<>>, rows |-> <<>>]

\* a data row as a sheet holds it; g is the text of the games_played cell
SheetRow(seen, u, g, e, a, d, pl, df, t, dmg) ==
    [last_updated |-> seen, username |-> u, games_played |-> g,
     total_eliminations |-> FormatInt(e), total_assists |-> FormatInt(a),
     total_deaths |-> FormatInt(d), total_plants |-> FormatInt(pl),
     total_defuses |-> FormatInt(df),
     avg_eliminations |-> 0, avg_assists |-> 0, avg_deaths |-> 0,
     avg_plants |-> 0, avg_defuses |-> 0, kd_ratio |-> 0,
     team |-> t, total_damage |-> FormatInt(dmg), avg_damage |-> 0]

\* the sheets a run can find: empty; five players, one of them with
\* games_played 0 and two whose usernames normalize to one key; a row with
\* a cell that is not an integer
InitialSheets ==
    { EmptySheet,
      [header |-> standard_headers,
       rows |-> << SheetRow(0, U_quintin, <<"3">>, 10, 4, 5, 1, 0, "ATK", 300),
                   SheetRow(0, U_DIBBS, <<"1">>, 2, 0, 1, 0, 0, "ATK", 60),
                   SheetRow(0, U_Zed, <<"0">>, 0, 0, 0, 0, 0, "ATK", 0),
                   SheetRow(0, U_Player1, <<"2">>, 6, 1, 3, 0, 0, "ATK", 200),
                   SheetRow(0, U_Player2, <<"1">>, 4, 0, 8, 1, 0, "DEF", 100) >>],
      [header |-> standard_headers,
       rows |-> << SheetRow(0, U_quintin, <<"x">>, 10, 4, 5, 1, 0, "ATK", 300) >>] }

\* a sheet whose first row has two cells only, and no data yet
PartialHeaderSheet ==
    [header |-> <<"username", "games_played">>, rows |-> <<>>]

\* a sheet whose header row has a column of its own after the standard ones
WideHeaderSheet ==
    [header |-> standard_headers \o <<"notes">>,
     rows |-> << SheetRow(0, U_DIBBS, <<"1">>, 2, 0, 1, 0, 0, "ATK", 60),
                 SheetRow(0, U_Zed, <<"0">>, 0, 0, 0, 0, 0, "ATK", 0) >>]

\* the sheets cli.py can find
CliSheets == InitialSheets \cup {PartialHeaderSheet, WideHeaderSheet}

\* "if record.get('username')": get_all_records turns a cell made of digits
\* into an int; '' and the number 0 are falsy
UsernameTruthy(cell) ==
    /\ cell # <<>>
    /\ ~(IsNumericCell(cell) /\ ParseInt(cell) = 0)

\* the cells STEP 1 passes to int()
IntCells(row) ==
    <<row.games_played, row.total_eliminations, row.total_deaths,
      row.total_assists, row.total_damage, row.total_plants, row.total_defuses>>

\* a row on which the loop of STEP 1 raises: normalize_username on an int
\* (no .strip()), or int() on a cell that is not an integer
RowRaises(row) ==
    /\ UsernameTruthy(row.username)
    /\ \/ IsNumericCell(row.username)
       \/ \E i \in DOMAIN IntCells(row) : ~IsNumericCell(IntCells(row)[i])

ReadRaises(sh) == \E i \in DOMAIN sh.rows : RowRaises(sh.rows[i])

\* a STEP 1 that keeps the first row of a key and ignores the later ones
RECURSIVE ReadRows_KeepsFirst(_, _)
ReadRows_KeepsFirst(existing_data, rows) ==
    IF rows = <<>> THEN existing_data
    ELSE LET record == rows[1]
             username_key == username_keys[record.username]
         IN IF ~UsernameTruthy(record.username) \/ HasKey(existing_data, username_key)
            THEN ReadRows_KeepsFirst(existing_data, Tail(rows))
            ELSE ReadRows_KeepsFirst(
                    Append(existing_data,
                           [key |-> username_key,
                            username |-> record.username,
                            games_played |-> ParseInt(record.games_played),
                            total_eliminations |-> ParseInt(record.total_eliminations),
                            total_deaths |-> ParseInt(record.total_deaths),
                            total_assists |-> ParseInt(record.total_assists),
                            total_damage |-> ParseInt(record.total_damage),
                            total_plants |-> ParseInt(record.total_plants),
                            total_defuses |-> ParseInt(record.total_defuses),
                            team |-> record.team,
                            last_seen |-> record.last_updated]),
                    Tail(rows))

\* existing_data[username_key] = {...}: a later row with the same key
\* replaces the value and keeps the key's position
RECURSIVE ReadRows(_, _)
ReadRows(existing_data, rows) ==
    IF rows = <<>> THEN existing_data
    ELSE LET record == rows[1]
             username_key == username_keys[record.username]
             value == [key |-> username_key,
                       username |-> record.username,
                       games_played |-> ParseInt(record.games_played),
                       total_eliminations |-> ParseInt(record.total_eliminations),
                       total_deaths |-> ParseInt(record.total_deaths),
                       total_assists |-> ParseInt(record.total_assists),
                       total_damage |-> ParseInt(record.total_damage),
                       total_plants |-> ParseInt(record.total_plants),
                       total_defuses |-> ParseInt(record.total_defuses),
                       team |-> record.team,
                       last_seen |-> record.last_updated]
         IN IF ~UsernameTruthy(record.username)
            THEN ReadRows(existing_data, Tail(rows))
            ELSE IF HasKey(existing_data, username_key)
            THEN ReadRows([existing_data EXCEPT
                             ![IndexOf(existing_data, username_key)] = value],
                          Tail(rows))
            ELSE ReadRows(Append(existing_data, value), Tail(rows))

\* a STEP 1 that keeps the rows it could read when the read raises
existing_data_KeepsReadable(sh, read_fails) ==
    LET readable(row) == ~RowRaises(row)
    IN ReadRows(<<>>, SelectSeq(sh.rows, readable))

\* STEP 1: the existing leaderboard; any exception leaves it empty
existing_data(sh, read_fails) ==
    IF read_fails \/ ReadRaises(sh) THEN <<>> ELSE ReadRows(<<>>, sh.rows)

(***************************************************************************)
(* export_to_google_sheets: STEP 2 to STEP 4.                              *)
(***************************************************************************)
\* one iteration of the inner loop of STEP 2
AggregateNewEntry(new_data, player, match_info) ==
    IF IsBlank(player.username) THEN new_data
    ELSE
      LET username_key == username_keys[player.username]
      IN IF IsBlank(username_key) THEN new_data
         ELSE
           LET d == IF HasKey(new_data, username_key)
                    THEN new_data
                    ELSE Append(new_data,
                           [key |-> username_key,
                            username |-> player.username,
                            team |-> player.team,
                            games_played |-> 0,
                            total_eliminations |-> 0,
                            total_deaths |-> 0,
                            total_assists |-> 0,
                            total_damage |-> 0,
                            total_plants |-> 0,
                            total_defuses |-> 0,
                            last_seen |-> match_info.timestamp])
               i == IndexOf(d, username_key)
           IN [d EXCEPT ![i] =
                 [@ EXCEPT !.games_played = @ + 1,
                           !.total_eliminations = @ + player.eliminations,
                           !.total_deaths = @ + player.deaths,
                           !.total_assists = @ + player.assists,
                           !.total_damage = @ + player.damage,
                           !.total_plants = @ + player.plants,
                           !.total_defuses = @ + player.defuses,
                           !.last_seen = match_info.timestamp,
                           !.team = player.team]]

RECURSIVE FoldNew(_, _)
FoldNew(acc, entries) ==
    IF entries = <<>> THEN acc
    ELSE FoldNew(AggregateNewEntry(acc, entries[1].player, entries[1].match_info),
                 Tail(entries))

new_player_data(results) == FoldNew(<<>>, Entries(results))

\* a merge that replaces the existing totals by the run's instead of adding
CombineOne_Overwrite(combined_data, new_stats) ==
    IF HasKey(combined_data, new_stats.key)
    THEN [combined_data EXCEPT ![IndexOf(combined_data, new_stats.key)] =
            [@ EXCEPT !.games_played = new_stats.games_played,
                      !.total_eliminations = new_stats.total_eliminations,
                      !.total_deaths = new_stats.total_deaths,
                      !.total_assists = new_stats.total_assists,
                      !.total_damage = new_stats.total_damage,
                      !.total_plants = new_stats.total_plants,
                      !.total_defuses = new_stats.total_defuses,
                      !.team = new_stats.team,
                      !.last_seen = new_stats.last_seen]]
    ELSE Append(combined_data, new_stats)

\* a merge that also takes the run's spelling of the username
CombineOne_TakeNewName(combined_data, new_stats) ==
    IF HasKey(combined_data, new_stats.key)
    THEN [combined_data EXCEPT ![IndexOf(combined_data, new_stats.key)] =
            [@ EXCEPT !.username = new_stats.username,
                      !.games_played = @ + new_stats.games_played,
                      !.total_eliminations = @ + new_stats.total_eliminations,
                      !.total_deaths = @ + new_stats.total_deaths,
                      !.total_assists = @ + new_stats.total_assists,
                      !.total_damage = @ + new_stats.total_damage,
                      !.total_plants = @ + new_stats.total_plants,
                      !.total_defuses = @ + new_stats.total_defuses,
                      !.team = new_stats.team,
                      !.last_seen = new_stats.last_seen]]
    ELSE Append(combined_data, new_stats)

\* STEP 3, one iteration: add onto the existing record or insert the new one
CombineOne(combined_data, new_stats) ==
    IF HasKey(combined_data, new_stats.key)
    THEN [combined_data EXCEPT ![IndexOf(combined_data, new_stats.key)] =
            [@ EXCEPT !.games_played = @ + new_stats.games_played,
                      !.total_eliminations = @ + new_stats.total_eliminations,
                      !.total_deaths = @ + new_stats.total_deaths,
                      !.total_assists = @ + new_stats.total_assists,
                      !.total_damage = @ + new_stats.total_damage,
                      !.total_plants = @ + new_stats.total_plants,
                      !.total_defuses = @ + new_stats.total_defuses,
                      !.team = new_stats.team,
                      !.last_seen = new_stats.last_seen]]
    ELSE Append(combined_data, new_stats)

RECURSIVE combined_data(_, _)
combined_data(existing, new_data) ==
    IF new_data = <<>> THEN existing
    ELSE combined_data(CombineOne(existing, new_data[1]), Tail(new_data))

\* STEP 4: one sheet row from one combined record
LeaderboardRow(stats) ==
    LET games == stats.games_played
    IN [last_updated |-> stats.last_seen,
        username |-> stats.username,
        games_played |-> FormatInt(games),
        total_eliminations |-> FormatInt(stats.total_eliminations),
        total_assists |-> FormatInt(stats.total_assists),
        total_deaths |-> FormatInt(stats.total_deaths),
        total_plants |-> FormatInt(stats.total_plants),
        total_defuses |-> FormatInt(stats.total_defuses),
        avg_eliminations |-> Round2(stats.total_eliminations, games),
        avg_assists |-> Round2(stats.total_assists, games),
        avg_deaths |-> Round2(stats.total_deaths, games),
        avg_plants |-> Round2(stats.total_plants, games),
        avg_defuses |-> Round2(stats.total_defuses, games),
        kd_ratio |-> Round2(stats.total_eliminations, Max(stats.total_deaths, 1)),
        team |-> stats.team,
        total_damage |-> FormatInt(stats.total_damage),
        avg_damage |-> Round2(stats.total_damage, games)]

\* "if games > 0": players with 0 games are skipped
HasGames(stats) == stats.games_played > 0

\* STEP 4 and the sort of STEP 5
rows_to_add(combined) ==
    LET kept == SelectSeq(combined, HasGames)
    IN SortByKd([i \in DOMAIN kept |-> LeaderboardRow(kept[i])])

\* the rows the sheet is to hold after a call with these results
MergedRows(sh, read_fails, results) ==
    rows_to_add(combined_data(existing_data(sh, read_fails),
                              new_player_data(results)))

(***************************************************************************)
(* export_to_google_sheets: STEP 5, the write, with the point at which a   *)
(* Sheets API call fails.                                                  *)
(*   "none"    every call succeeds                                         *)
(*   "open"    no client, no sheet id, or open_by_key/worksheet raises     *)
(*   "read"    get_all_records raises                                      *)
(*   "clear"   append_row(headers) raises after clear()                    *)
(*   "delete"  delete_rows raises                                          *)
(*   "append"  an append_rows batch raises                                 *)
(***************************************************************************)
FailPoints == {"none", "open", "read", "clear", "delete", "append"}

\* "if not headers or len(headers) < 10"
HeadersWrong(sh) == Len(sh.header) < 10

\* a header check that always starts the sheet over with the standard header
AfterHeaders_AlwaysNew(sh) == [header |-> standard_headers, rows |-> <<>>]

\* the sheet once the header check is done
AfterHeaders(sh) ==
    IF HeadersWrong(sh) THEN [header |-> standard_headers, rows |-> <<>>] ELSE sh

\* range(0, len(rows_to_add), batch_size)
NumBatches(rows) == (Len(rows) + batch_size - 1) \div batch_size

FirstBatches(rows, k) ==
    SubSeq(rows, 1, IF k * batch_size < Len(rows) THEN k * batch_size ELSE Len(rows))

\* can the call fail at this point, given the sheet and the rows to write
CanFail(sh, rows, fail) ==
    CASE fail = "clear"  -> HeadersWrong(sh)
      [] fail = "delete" -> AfterHeaders(sh).rows # <<>>
      [] fail = "append" -> rows # <<>>
      [] OTHER -> TRUE

\* a write that appends below the old data rows instead of replacing them
SheetAfter_KeepsOldRows(sh, rows, fail, k) ==
    CASE fail = "open"   -> sh
      [] fail = "clear"  -> sh
      [] fail = "delete" -> AfterHeaders(sh)
      [] fail = "append" -> [header |-> AfterHeaders(sh).header,
                             rows |-> AfterHeaders(sh).rows \o FirstBatches(rows, k)]
      [] OTHER -> [header |-> AfterHeaders(sh).header,
                   rows |-> AfterHeaders(sh).rows \o rows]

\* the sheet after the call; k is the number of batches appended before the
\* failing one
SheetAfter(sh, rows, fail, k) ==
    CASE fail = "open"   -> sh
      [] fail = "clear"  -> sh
      [] fail = "delete" -> AfterHeaders(sh)
      [] fail = "append" -> [header |-> AfterHeaders(sh).header,
                             rows |-> FirstBatches(rows, k)]
      [] OTHER -> [header |-> AfterHeaders(sh).header, rows |-> rows]

\* the value export_to_google_sheets returns
Returned(fail) == fail \in {"none", "read"}

(***************************************************************************)
(* _get_existing_players: the known-player context of a run.               *)
(***************************************************************************)
\* "return players[:100]"
context_limit == 100

\* "top_players = existing_players[:200]"
prompt_limit == 200

\* s[:n]
Take(s, n) == SubSeq(s, 1, IF n < Len(s) THEN n ELSE Len(s))

\* the characters of the usernames in code point order
CharOrder == <<" ">> \o DigitChars \o UpperLetters \o LowerLetters

CharCode(c) == CHOOSE i \in DOMAIN CharOrder : CharOrder[i] = c

\* a < b for two str
RECURSIVE StrLess(_, _)
StrLess(a, b) ==
    IF b = <<>> THEN FALSE
    ELSE IF a = <<>> THEN TRUE
    ELSE IF a[1] # b[1] THEN CharCode(a[1]) < CharCode(b[1])
    ELSE StrLess(Tail(a), Tail(b))

\* record.get('username', '').strip() raises on a cell that get_all_records
\* has turned into an int
ContextRaises(sh) ==
    \E i \in DOMAIN sh.rows : IsNumericCell(sh.rows[i].username)

\* "if username and username.lower() not in ['username', 'player']"
InContext(row) ==
    /\ Strip(row.username) # <<>>
    /\ Lower(Strip(row.username)) \notin {<<"u","s","e","r","n","a","m","e">>,
                                          <<"p","l","a","y","e","r">>}

\* int(record.get('games_played', 0)) raises for some record
GamesRaises(sh) ==
    \E i \in DOMAIN sh.rows : ~IsNumericCell(sh.rows[i].games_played)

\* key=lambda x: (-x[1], x[0])
ByGamesThenName(p, q) ==
    \/ p.games > q.games
    \/ p.games = q.games /\ StrLess(p.username, q.username)

\* the usernames of the sheet, most games first; in alphabetical order when
\* a games_played cell cannot be parsed
ContextPlayers(sh) ==
    LET kept == SelectSeq(sh.rows, InContext)
    IN IF GamesRaises(sh)
       THEN SortSeq([i \in DOMAIN kept |-> Strip(kept[i].username)], StrLess)
       ELSE LET pairs == [i \in DOMAIN kept |->
                            [username |-> Strip(kept[i].username),
                             games |-> ParseInt(kept[i].games_played)]]
                sorted == SortSeq(pairs, ByGamesThenName)
            IN [i \in DOMAIN sorted |-> sorted[i].username]

\* _get_existing_players(); read_fails: no client, or the sheet cannot be read
get_existing_players(sh, read_fails) ==
    IF read_fails \/ ContextRaises(sh) THEN <<>>
    ELSE Take(ContextPlayers(sh), context_limit)

\* the known players _create_extraction_prompt puts in the prompt
PromptPlayers(players) == Take(players, prompt_limit)

(***************************************************************************)
(* State.                                                                  *)
(***************************************************************************)
VARIABLES
    enable_duplicate_check, \* self.enable_duplicate_check
    processed_hashes,       \* self.processed_hashes
    pc,                     \* where the caller is: "idle", "processing", "done",
                            \* "raised" when an exception reached the caller
    all_results,            \* the result list of the current run
    submitted,              \* images submitted to process_image so far
    clock,                  \* datetime.now(), as a counter
    sheet,                  \* the worksheet
    csv,                    \* the rows of the last CSV file written
    exports,                \* export_to_google_sheets calls made
    oracle_calls,           \* generate_content calls made, per image
    last_export,            \* the last export_to_google_sheets call
    norm_in,                \* the username handed to normalize_username
    last_results,           \* st.session_state.last_results of the web app
    model,                  \* self.model is set: the oracle is configured
    existing_players,       \* existing_players of process_images_with_context
    run_prompts,            \* the known-player lists in the prompts of the
                            \* run in progress
    summary,                \* what create_summary_stats last returned
    norm_out                \* what successive normalize_username calls returned

vars == <<enable_duplicate_check, processed_hashes, pc, all_results, submitted,
          clock, sheet, csv, exports, oracle_calls,
          last_export, last_results, model, existing_players, run_prompts, summary, norm_in, norm_out>>

Hashes == DOMAIN OracleAnswers

NoExport ==
    [called |-> FALSE, returned |-> FALSE]

Init ==
    /\ enable_duplicate_check \in BOOLEAN
    /\ processed_hashes = {}
    /\ pc = "idle"
    /\ all_results = <<>>
    /\ submitted = 0
    /\ clock = 1
    /\ sheet \in InitialSheets
    /\ csv = <<>>
    /\ exports = 0
    /\ oracle_calls = [h \in Hashes |-> 0]
    /\ last_export = NoExport
    /\ norm_in = <<>>
    /\ last_results = <<>>
    /\ model \in BOOLEAN
    /\ existing_players = <<>>
    /\ run_prompts = {}
    /\ summary = <<>>
    /\ norm_out = <<>>

(***************************************************************************)
(* Actions.                                                                *)
(***************************************************************************)
\* process_images_with_context up to its loop: a fresh result list
StartRun(read_fails) ==
    /\ pc \in {"idle", "done"}
    /\ pc' = "processing"
    /\ existing_players' = get_existing_players(sheet, read_fails)
    /\ run_prompts' = {}
    /\ all_results' = <<>>
    /\ UNCHANGED <<summary, model, last_results, norm_in, norm_out,
                   enable_duplicate_check, processed_hashes, submitted, clock,
                   sheet, csv, exports, oracle_calls, last_export>>

\* the hash check of process_image: TRUE when the image is to be skipped
IsDuplicate(h) == enable_duplicate_check /\ h \in processed_hashes

\* a hash check that never records the hash
MarkHash_Forget(h) == processed_hashes

\* processed_hashes after the hash check
MarkHash(h) ==
    IF enable_duplicate_check THEN processed_hashes \cup {h} ELSE processed_hashes

\* process_image without a model: "if not self.model: return None"
ProcessImageNoModel ==
    /\ ~model
    /\ submitted' = submitted + 1
    /\ UNCHANGED <<summary, run_prompts, existing_players, model, last_results,
                   norm_in, norm_out, enable_duplicate_check, processed_hashes,
                   pc, all_results, clock, sheet, csv, exports, oracle_calls,
                   last_export>>

\* process_image on a duplicate: returns None before the oracle is called
ProcessImageDuplicate(h) ==
    /\ model
    /\ IsDuplicate(h)
    /\ submitted' = submitted + 1
    /\ UNCHANGED <<summary, run_prompts, existing_players, model, last_results,
                   norm_in, norm_out, enable_duplicate_check, processed_hashes,
                   pc, all_results, clock, sheet, csv, exports, oracle_calls,
                   last_export>>

\* a process_image that records the hash only once the extraction succeeded
ProcessImageFails_HashNotKept(h) ==
    /\ model
    /\ ~IsDuplicate(h)
    /\ run_prompts' = run_prompts \cup {PromptPlayers(existing_players)}
    /\ oracle_calls' = [oracle_calls EXCEPT ![h] = @ + 1]
    /\ submitted' = submitted + 1
    /\ UNCHANGED <<summary, existing_players, model, last_results, norm_in,
                   norm_out, enable_duplicate_check, processed_hashes, pc,
                   all_results, clock, sheet, csv, exports, last_export>>

\* process_image when the oracle call or the parsing raises: returns None
ProcessImageFails(h) ==
    /\ model
    /\ ~IsDuplicate(h)
    /\ processed_hashes' = MarkHash(h)
    /\ run_prompts' = run_prompts \cup {PromptPlayers(existing_players)}
    /\ oracle_calls' = [oracle_calls EXCEPT ![h] = @ + 1]
    /\ submitted' = submitted + 1
    /\ UNCHANGED <<summary, existing_players, model, last_results, norm_in,
                   norm_out, enable_duplicate_check, pc, all_results, clock,
                   sheet, csv, exports, last_export>>

\* a loop that adds the players of each result to the context of the next image
ProcessImageOk_ExtendsContext(h) ==
    /\ model
    /\ ~IsDuplicate(h)
    /\ processed_hashes' = MarkHash(h)
    /\ run_prompts' = run_prompts \cup {PromptPlayers(existing_players)}
    /\ oracle_calls' = [oracle_calls EXCEPT ![h] = @ + 1]
    /\ submitted' = submitted + 1
    /\ all_results' = Append(all_results,
                             [players |-> OracleAnswers[h].players,
                              match_info |->
                                 [match_result |-> OracleAnswers[h].match_result,
                                  timestamp |-> clock,
                                  image_file |-> h]])
    /\ clock' = clock + 1
    /\ existing_players' =
          existing_players \o [i \in DOMAIN OracleAnswers[h].players |->
                                  OracleAnswers[h].players[i].username]
    /\ UNCHANGED <<summary, model, last_results, norm_in, norm_out,
                   enable_duplicate_check, pc, sheet, csv, exports,
                   last_export>>

\* process_image when the oracle answers: the result is appended by the loop
ProcessImageOk(h) ==
    /\ model
    /\ ~IsDuplicate(h)
    /\ processed_hashes' = MarkHash(h)
    /\ run_prompts' = run_prompts \cup {PromptPlayers(existing_players)}
    /\ oracle_calls' = [oracle_calls EXCEPT ![h] = @ + 1]
    /\ submitted' = submitted + 1
    /\ all_results' = Append(all_results,
                             [players |-> OracleAnswers[h].players,
                              match_info |->
                                 [match_result |-> OracleAnswers[h].match_result,
                                  timestamp |-> clock,
                                  image_file |-> h]])
    /\ clock' = clock + 1
    /\ UNCHANGED <<summary, existing_players, model, last_results, norm_in,
                   norm_out, enable_duplicate_check, pc, sheet, csv, exports,
                   last_export>>

\* process_image on a file that cannot be opened: with the duplicate check
\* enabled _get_image_hash raises before the try block is entered, and the
\* exception leaves process_images_with_context; without it Image.open
\* raises inside the try block and process_image returns None
ProcessImageUnreadable ==
    /\ pc = "processing"
    /\ model
    /\ submitted < MaxImages
    /\ submitted' = submitted + 1
    /\ IF enable_duplicate_check
          THEN pc' = "raised" /\ all_results' = <<>>
          ELSE UNCHANGED <<summary, run_prompts, existing_players, model, pc,
                           all_results>>
    /\ UNCHANGED <<summary, run_prompts, existing_players, model, last_results,
                   norm_in, norm_out, enable_duplicate_check, processed_hashes,
                   clock, sheet, csv, exports, oracle_calls, last_export>>

\* one iteration of the loop of process_images_with_context
ProcessImage(h) ==
    /\ pc = "processing"
    /\ submitted < MaxImages
    /\ \/ ProcessImageNoModel
       \/ ProcessImageDuplicate(h)
       \/ ProcessImageFails(h)
       \/ ProcessImageOk(h)

\* process_images_with_context returns all_results; its existing_players
\* goes out of scope
FinishRun ==
    /\ pc = "processing"
    /\ pc' = "done"
    /\ existing_players' = <<>>
    /\ run_prompts' = {}
    /\ UNCHANGED <<summary, model, last_results, norm_in, norm_out,
                   enable_duplicate_check, processed_hashes, all_results,
                   submitted, clock, sheet, csv, exports, oracle_calls,
                   last_export>>

\* export_to_csv(results) on a non-empty result list
ExportToCsv ==
    /\ pc = "done"
    /\ all_results # <<>>
    /\ UNCHANGED <<summary, run_prompts, existing_players, model, last_results,
                   norm_in, norm_out, enable_duplicate_check, processed_hashes,
                   pc, all_results, submitted, clock, sheet, exports,
                   oracle_calls, last_export>>
    /\ csv' = CsvRows(all_results)

\* export_to_google_sheets(results)
ExportToGoogleSheets(fail) ==
    /\ pc = "done"
    /\ exports < MaxExports
    /\ exports' = exports + 1
    /\ last_export' = [called |-> TRUE, returned |-> Returned(fail)]
    /\ LET rows == MergedRows(sheet, fail = "read", all_results)
       IN /\ CanFail(sheet, rows, fail)
          /\ \E k \in 0..Max(NumBatches(rows) - 1, 0) :
                sheet' = SheetAfter(sheet, rows, fail, k)
    /\ UNCHANGED <<summary, run_prompts, existing_players, model, last_results,
                   norm_in, norm_out, enable_duplicate_check, processed_hashes,
                   pc, all_results, submitted, clock, csv, oracle_calls>>

Next ==
    \/ \E read_fails \in BOOLEAN : StartRun(read_fails)
    \/ \E h \in Hashes : ProcessImage(h)
    \/ ProcessImageUnreadable
    \/ FinishRun
    \/ ExportToCsv
    \/ \E fail \in FailPoints : ExportToGoogleSheets(fail)

Spec == Init /\ [][Next]_vars

(***************************************************************************)
(* normalize_username applied to a username and again to its own result.   *)
(***************************************************************************)
\* normalize_username calls made on one username
MaxApplications == 2

NamePrefixes ==
    {<<>>, <<"T","T","V">>, <<"2","A","M">>, <<"x","X">>}

NameBases ==
    {<<"F","r","e","n">>, <<"D","i","b","b","s">>, <<"N","i","n","j","a">>,
     <<"q","u","i","n","t","i","n">>, <<"J","J">>, <<"R","o","w","d">>,
     <<"Z","e","d">>, <<"P","l","a","y","e","r">>, <<"S","a","r","a","h">>,
     <<"Z","a","n","d","e","r">>, <<"K","o","d","y">>,
     <<"S","K","E","L","E","T","O">>}

NameSuffixes ==
    {<<>>, <<"y">>, <<"z">>, <<"z","y">>, <<"Y","T">>, <<"7">>}

\* the usernames normalize_username is applied to
NormalizeInputs ==
    {p \o b \o s : p \in NamePrefixes, b \in NameBases, s \in NameSuffixes}

InitNormalize ==
    /\ enable_duplicate_check = TRUE
    /\ processed_hashes = {}
    /\ pc = "idle"
    /\ all_results = <<>>
    /\ submitted = 0
    /\ clock = 1
    /\ sheet = EmptySheet
    /\ csv = <<>>
    /\ exports = 0
    /\ oracle_calls = [h \in Hashes |-> 0]
    /\ last_export = NoExport
    /\ norm_in \in NormalizeInputs
    /\ last_results = <<>>
    /\ model = TRUE
    /\ existing_players = <<>>
    /\ run_prompts = {}
    /\ summary = <<>>
    /\ norm_out = <<>>

\* one call of normalize_username, on the input or on the last result
ApplyNormalize ==
    /\ Len(norm_out) < MaxApplications
    /\ norm_out' = Append(norm_out,
                          normalize_username(IF norm_out = <<>> THEN norm_in
                                             ELSE norm_out[Len(norm_out)]))
    /\ UNCHANGED <<summary, run_prompts, existing_players, model, last_results,
                   norm_in, enable_duplicate_check, processed_hashes, pc,
                   all_results, submitted, clock, sheet, csv, exports,
                   oracle_calls, last_export>>

NextNormalize == ApplyNormalize

SpecNormalize == InitNormalize /\ [][NextNormalize]_vars

(***************************************************************************)
(* cli.py: main() run once on a fresh processor.  pc is "cli_main" on      *)
(* entry, "exit_no_images" and "exit_no_data" after the two early returns, *)
(* "cli_csv" once export_to_csv has returned and "exit_done" at the end.   *)
(***************************************************************************)
InitCli ==
    /\ enable_duplicate_check = TRUE
    /\ processed_hashes = {}
    /\ pc = "cli_main"
    /\ all_results = <<>>
    /\ submitted = 0
    /\ clock = 1
    /\ sheet \in CliSheets
    /\ csv = <<>>
    /\ exports = 0
    /\ oracle_calls = [h \in Hashes |-> 0]
    /\ last_export = NoExport
    /\ norm_in = <<>>
    /\ last_results = <<>>
    /\ model \in BOOLEAN
    /\ existing_players = <<>>
    /\ run_prompts = {}
    /\ summary = <<>>
    /\ norm_out = <<>>

\* "if not image_files: ... return"
CliNoImages ==
    /\ pc = "cli_main"
    /\ pc' = "exit_no_images"
    /\ UNCHANGED <<summary, run_prompts, existing_players, model, last_results,
                   norm_in, norm_out, enable_duplicate_check, processed_hashes,
                   all_results, submitted, clock, sheet, csv, exports,
                   oracle_calls, last_export>>

\* image files were found: --no-duplicates is applied and
\* process_images_with_context is entered
CliStart(no_duplicates, read_fails) ==
    /\ pc = "cli_main"
    /\ pc' = "processing"
    /\ existing_players' = get_existing_players(sheet, read_fails)
    /\ run_prompts' = {}
    /\ enable_duplicate_check' =
          IF no_duplicates THEN FALSE ELSE enable_duplicate_check
    /\ all_results' = <<>>
    /\ UNCHANGED <<summary, model, last_results, norm_in, norm_out,
                   processed_hashes, submitted, clock, sheet, csv, exports,
                   oracle_calls, last_export>>

\* process_images_with_context returns, every image file handled
CliFinish ==
    /\ submitted >= 1
    /\ FinishRun

\* "if not results: ... return"
CliNoResults ==
    /\ pc = "done"
    /\ all_results = <<>>
    /\ pc' = "exit_no_data"
    /\ UNCHANGED <<summary, run_prompts, existing_players, model, last_results,
                   norm_in, norm_out, enable_duplicate_check, processed_hashes,
                   all_results, submitted, clock, sheet, csv, exports,
                   oracle_calls, last_export>>

\* csv_file = processor.export_to_csv(results, args.output)
CliExportCsv ==
    /\ pc = "done"
    /\ all_results # <<>>
    /\ pc' = "cli_csv"
    /\ UNCHANGED <<summary, run_prompts, existing_players, model, last_results,
                   norm_in, norm_out, enable_duplicate_check, processed_hashes,
                   all_results, submitted, clock, sheet, exports, oracle_calls,
                   last_export>>
    /\ csv' = CsvRows(all_results)

\* a cli that calls export_to_google_sheets without writing the CSV first
CliExportSheets_First(fail) ==
    /\ pc = "done"
    /\ all_results # <<>>
    /\ pc' = "exit_done"
    /\ summary' = create_summary_stats(all_results)
    /\ exports' = exports + 1
    /\ last_export' = [called |-> TRUE, returned |-> Returned(fail)]
    /\ LET rows == MergedRows(sheet, fail = "read", all_results)
       IN /\ CanFail(sheet, rows, fail)
          /\ \E k \in 0..Max(NumBatches(rows) - 1, 0) :
                sheet' = SheetAfter(sheet, rows, fail, k)
    /\ UNCHANGED <<run_prompts, existing_players, model, last_results, norm_in,
                   norm_out, enable_duplicate_check, processed_hashes,
                   all_results, submitted, clock, csv, oracle_calls>>

\* "if not args.no_sheets: success = processor.export_to_google_sheets(results)"
CliExportSheets(fail) ==
    /\ pc = "cli_csv"
    /\ pc' = "exit_done"
    /\ summary' = create_summary_stats(all_results)
    /\ exports' = exports + 1
    /\ last_export' = [called |-> TRUE, returned |-> Returned(fail)]
    /\ LET rows == MergedRows(sheet, fail = "read", all_results)
       IN /\ CanFail(sheet, rows, fail)
          /\ \E k \in 0..Max(NumBatches(rows) - 1, 0) :
                sheet' = SheetAfter(sheet, rows, fail, k)
    /\ UNCHANGED <<run_prompts, existing_players, model, last_results, norm_in,
                   norm_out, enable_duplicate_check, processed_hashes,
                   all_results, submitted, clock, csv, oracle_calls>>

\* --no-sheets: the export to Google Sheets is skipped
CliSkipSheets ==
    /\ pc = "cli_csv"
    /\ pc' = "exit_done"
    /\ summary' = create_summary_stats(all_results)
    /\ UNCHANGED <<run_prompts, existing_players, model, last_results, norm_in,
                   norm_out, enable_duplicate_check, processed_hashes,
                   all_results, submitted, clock, sheet, csv, exports,
                   oracle_calls, last_export>>

NextCli ==
    \/ CliNoImages
    \/ \E no_duplicates, read_fails \in BOOLEAN :
          CliStart(no_duplicates, read_fails)
    \/ \E h \in Hashes : ProcessImage(h)
    \/ ProcessImageUnreadable
    \/ CliFinish
    \/ CliNoResults
    \/ CliExportCsv
    \/ \E fail \in FailPoints : CliExportSheets(fail)
    \/ CliSkipSheets

SpecCli == InitCli /\ [][NextCli]_vars

(***************************************************************************)
(* app_secure.py: main() is run again on every interaction, each time with *)
(* a new processor; st.session_state.last_results survives the reruns.  pc *)
(* is "app_idle" between interactions and "app_upload" inside the handler  *)
(* of the "Update Leaderboard" button, while its images are processed.     *)
(***************************************************************************)
InitApp ==
    /\ enable_duplicate_check = TRUE
    /\ processed_hashes = {}
    /\ pc = "app_idle"
    /\ all_results = <<>>
    /\ submitted = 0
    /\ clock = 1
    /\ sheet \in InitialSheets
    /\ csv = <<>>
    /\ exports = 0
    /\ oracle_calls = [h \in Hashes |-> 0]
    /\ last_export = NoExport
    /\ last_results = <<>>
    /\ norm_in = <<>>
    /\ model \in BOOLEAN
    /\ existing_players = <<>>
    /\ run_prompts = {}
    /\ summary = <<>>
    /\ norm_out = <<>>

\* "if processor.model: ... else: st.stop()": the script goes on to its
\* buttons only with a model
AppReady == model

\* the "Update Leaderboard" button is pressed: the processor of this rerun is
\* new, results = [], and process_image is called without existing_players
AppUpload ==
    /\ AppReady
    /\ pc = "app_idle"
    /\ pc' = "app_upload"
    /\ enable_duplicate_check' = TRUE
    /\ processed_hashes' = {}
    /\ existing_players' = <<>>
    /\ run_prompts' = {}
    /\ all_results' = <<>>
    /\ UNCHANGED <<summary, model, last_results, norm_in, norm_out, submitted,
                   clock, sheet, csv, exports, oracle_calls, last_export>>

\* result = processor.process_image(temp_file) for one uploaded file
AppProcessImage(h) ==
    /\ pc = "app_upload"
    /\ submitted < MaxImages
    /\ \/ ProcessImageDuplicate(h)
       \/ ProcessImageFails(h)
       \/ ProcessImageOk(h)

\* "if results: ... else: st.error(...)" with no results
AppNoResults ==
    /\ pc = "app_upload"
    /\ all_results = <<>>
    /\ pc' = "app_idle"
    /\ UNCHANGED <<summary, run_prompts, existing_players, model, last_results,
                   norm_in, norm_out, enable_duplicate_check, processed_hashes,
                   all_results, submitted, clock, sheet, csv, exports,
                   oracle_calls, last_export>>

\* "if processor.sheets_client:" export_to_google_sheets(results), and
\* export_to_csv(results) when it returns False
AppUpdateLeaderboard(fail) ==
    /\ pc = "app_upload"
    /\ all_results # <<>>
    /\ exports < MaxExports
    /\ pc' = "app_idle"
    /\ exports' = exports + 1
    /\ last_export' = [called |-> TRUE, returned |-> Returned(fail)]
    /\ last_results' = all_results
    /\ LET rows == MergedRows(sheet, fail = "read", all_results)
       IN /\ CanFail(sheet, rows, fail)
          /\ \E k \in 0..Max(NumBatches(rows) - 1, 0) :
                sheet' = SheetAfter(sheet, rows, fail, k)
    /\ csv' = IF Returned(fail) THEN csv ELSE CsvRows(all_results)
    /\ UNCHANGED <<summary, run_prompts, existing_players, model, norm_in,
                   norm_out, enable_duplicate_check, processed_hashes,
                   all_results, submitted, clock, oracle_calls>>

\* "else:" no sheets client: export_to_csv(results)
AppNoClient ==
    /\ pc = "app_upload"
    /\ all_results # <<>>
    /\ pc' = "app_idle"
    /\ last_results' = all_results
    /\ csv' = CsvRows(all_results)
    /\ UNCHANGED <<summary, run_prompts, existing_players, model, norm_in,
                   norm_out, enable_duplicate_check, processed_hashes,
                   all_results, submitted, clock, sheet, exports, oracle_calls,
                   last_export>>

\* the "Re-export to CSV" button
AppReexportCsv ==
    /\ AppReady
    /\ pc = "app_idle"
    /\ last_results # <<>>
    /\ csv' = CsvRows(last_results)
    /\ UNCHANGED <<summary, run_prompts, existing_players, model, last_results,
                   norm_in, norm_out, enable_duplicate_check, processed_hashes,
                   pc, all_results, submitted, clock, sheet, exports,
                   oracle_calls, last_export>>

\* the "Re-sync to Leaderboard" button
AppResync(fail) ==
    /\ AppReady
    /\ pc = "app_idle"
    /\ last_results # <<>>
    /\ exports < MaxExports
    /\ exports' = exports + 1
    /\ last_export' = [called |-> TRUE, returned |-> Returned(fail)]
    /\ LET rows == MergedRows(sheet, fail = "read", last_results)
       IN /\ CanFail(sheet, rows, fail)
          /\ \E k \in 0..Max(NumBatches(rows) - 1, 0) :
                sheet' = SheetAfter(sheet, rows, fail, k)
    /\ UNCHANGED <<summary, run_prompts, existing_players, model, last_results,
                   norm_in, norm_out, enable_duplicate_check, processed_hashes,
                   pc, all_results, submitted, clock, csv, oracle_calls>>

NextApp ==
    \/ AppUpload
    \/ \E h \in Hashes : AppProcessImage(h)
    \/ AppNoResults
    \/ \E fail \in FailPoints : AppUpdateLeaderboard(fail)
    \/ AppNoClient
    \/ AppReexportCsv
    \/ \E fail \in FailPoints : AppResync(fail)

SpecApp == InitApp /\ [][NextApp]_vars

(***************************************************************************)
(* What a result list contains, counted entry by entry.                    *)
(***************************************************************************)
RECURSIVE SumSeq(_)
SumSeq(s) == IF s = <<>> THEN 0 ELSE s[1] + SumSeq(Tail(s))

\* the entries with a non-blank username
NonBlankEntries(results) ==
    LET keep(e) == ~IsBlank(e.player.username)
    IN SelectSeq(Entries(results), keep)

\* the entries that resolve to identity key k
KeyEntries(results, k) ==
    LET keep(e) == username_keys[e.player.username] = k
    IN SelectSeq(NonBlankEntries(results), keep)

\* the identity keys of a result list
RunKeys(results) ==
    {username_keys[NonBlankEntries(results)[i].player.username] :
        i \in DOMAIN NonBlankEntries(results)}

\* the sum of one stat over the entries of key k
RunTotal(results, k, stat) ==
    LET es == KeyEntries(results, k)
    IN SumSeq([i \in DOMAIN es |-> es[i].player[stat]])

\* the last processed entry of key k
LastEntry(results, k) == KeyEntries(results, k)[Len(KeyEntries(results, k))]

\* the cumulative cells of a sheet row, as numbers
RowTotals(r) ==
    [games_played |-> ParseInt(r.games_played),
     total_eliminations |-> ParseInt(r.total_eliminations),
     total_deaths |-> ParseInt(r.total_deaths),
     total_assists |-> ParseInt(r.total_assists),
     total_damage |-> ParseInt(r.total_damage),
     total_plants |-> ParseInt(r.total_plants),
     total_defuses |-> ParseInt(r.total_defuses)]

\* the cumulative values of an existing record plus those of the run
ExistingPlusRun(ex, results) ==
    [games_played |-> ex.games_played + Len(KeyEntries(results, ex.key)),
     total_eliminations |->
        ex.total_eliminations + RunTotal(results, ex.key, "eliminations"),
     total_deaths |-> ex.total_deaths + RunTotal(results, ex.key, "deaths"),
     total_assists |-> ex.total_assists + RunTotal(results, ex.key, "assists"),
     total_damage |-> ex.total_damage + RunTotal(results, ex.key, "damage"),
     total_plants |-> ex.total_plants + RunTotal(results, ex.key, "plants"),
     total_defuses |-> ex.total_defuses + RunTotal(results, ex.key, "defuses")]

\* the rows of a sheet that show this username
RowsNamed(sh, u) == {i \in DOMAIN sh.rows : sh.rows[i].username = u}

\* a successful export_to_google_sheets step in which every API call succeeds
ExportSucceeds == ExportToGoogleSheets("none")

(***************************************************************************)
(* C1: when export_to_google_sheets merges a run whose entries resolve to  *)
(* an identity key present in the existing leaderboard (existing_data, the *)
(* snapshot STEP 1 has read),                                              *)
(* the written row's games_played and cumulative totals are the existing   *)
(* values plus the run's values for that key, and kd_ratio is              *)
(* eliminations / max(deaths, 1) rounded to 2 decimals; existing 'quintin' *)
(* (10 eliminations, 5 deaths, 3 games) plus one 'quintin' entry (5, 2)    *)
(* gives 4 games, 15 eliminations, 7 deaths, kd_ratio 2.14.                *)
(***************************************************************************)
C1_RowOf(ex) ==
    \E j \in DOMAIN sheet'.rows :
       LET r == sheet'.rows[j]
       IN /\ r.username = ex.username
          /\ RowTotals(r) = ExistingPlusRun(ex, all_results)
          /\ r.kd_ratio = Round2(ParseInt(r.total_eliminations),
                                 Max(ParseInt(r.total_deaths), 1))

C1_QuintinCase ==
    /\ LET ex == existing_data(sheet, FALSE)
       IN \E i \in DOMAIN ex :
             /\ ex[i].username = U_quintin
             /\ ex[i].games_played = 3
             /\ ex[i].total_eliminations = 10
             /\ ex[i].total_deaths = 5
    /\ Len(KeyEntries(all_results, username_keys[U_quintin])) = 1
    /\ KeyEntries(all_results, username_keys[U_quintin])[1].player.eliminations = 5
    /\ KeyEntries(all_results, username_keys[U_quintin])[1].player.deaths = 2

C1_MergeAddsRunToExisting ==
    [][ExportSucceeds =>
         /\ LET ex == existing_data(sheet, FALSE)
            IN \A i \in DOMAIN ex :
                  ex[i].key \in RunKeys(all_results) => C1_RowOf(ex[i])
         /\ C1_QuintinCase =>
               \E j \in DOMAIN sheet'.rows :
                  /\ sheet'.rows[j].username = U_quintin
                  /\ sheet'.rows[j].games_played = <<"4">>
                  /\ sheet'.rows[j].total_eliminations = <<"1","5">>
                  /\ sheet'.rows[j].total_deaths = <<"7">>
                  /\ sheet'.rows[j].kd_ratio = 214]_vars

C1_Witness ==
    /\ last_export.called /\ last_export.returned
    /\ Len(all_results) = 1 /\ all_results[1].match_info.image_file = 1
    /\ \E j \in DOMAIN sheet.rows :
          /\ sheet.rows[j].username = U_quintin
          /\ sheet.rows[j].games_played = <<"4">>
          /\ sheet.rows[j].total_eliminations = <<"1","5">>
          /\ sheet.rows[j].total_deaths = <<"7">>
          /\ sheet.rows[j].kd_ratio = 214

(***************************************************************************)
(* C2: export_to_csv excludes every entry whose username is empty or       *)
(* whitespace-only, and for a single image with two entries of distinct    *)
(* non-blank usernames (plus blank ones) the CSV has exactly two rows, one *)
(* for each of the two usernames.  Stated as in the claim; it does not     *)
(* hold for 'ValidPlayer1' and 'ValidPlayer2'.                             *)
(***************************************************************************)
NonBlankNames(results) ==
    {NonBlankEntries(results)[i].player.username :
        i \in DOMAIN NonBlankEntries(results)}

C2_TwoNamesTwoRows ==
    [][ExportToCsv =>
         /\ \A j \in DOMAIN csv' : ~IsBlank(csv'[j].username)
         /\ (/\ Len(all_results) = 1
             /\ Len(NonBlankEntries(all_results)) = 2
             /\ Cardinality(NonBlankNames(all_results)) = 2)
            => /\ Len(csv') = 2
               /\ {csv'[j].username : j \in DOMAIN csv'} = NonBlankNames(all_results)]_vars

(***************************************************************************)
(* C3: in the aggregation of export_to_csv every entry with a non-blank    *)
(* username contributes to exactly one record: the games_played of the     *)
(* rows add up to the number of non-blank entries, each non-blank entry's  *)
(* key is the key of exactly one row, and each row's games_played and      *)
(* totals are the count and the sums over the entries of its key.          *)
(***************************************************************************)
CsvTotals(r) ==
    [games_played |-> r.games_played,
     total_eliminations |-> r.total_eliminations,
     total_deaths |-> r.total_deaths,
     total_assists |-> r.total_assists,
     total_damage |-> r.total_damage,
     total_plants |-> r.total_plants,
     total_defuses |-> r.total_defuses]

ZeroRecord(k) ==
    [key |-> k, games_played |-> 0, total_eliminations |-> 0,
     total_deaths |-> 0, total_assists |-> 0, total_damage |-> 0,
     total_plants |-> 0, total_defuses |-> 0]

C3_EveryEntryCountedOnce ==
    [][ExportToCsv =>
         /\ SumSeq([j \in DOMAIN csv' |-> csv'[j].games_played])
               = Len(NonBlankEntries(all_results))
         /\ \A k \in RunKeys(all_results) :
               Cardinality({j \in DOMAIN csv' :
                               username_keys[csv'[j].username] = k}) = 1
         /\ \A j \in DOMAIN csv' :
               CsvTotals(csv'[j]) =
                  ExistingPlusRun(ZeroRecord(username_keys[csv'[j].username]),
                                  all_results)]_vars

\* a CSV exported from the image of the test: two blank entries skipped, two
\* entries of one key counted in one row
C3_Witness ==
    /\ pc = "done"
    /\ Len(all_results) = 1 /\ all_results[1].match_info.image_file = 3
    /\ Len(csv) = 1
    /\ csv[1].games_played = 2
    /\ csv[1].total_eliminations = 7

(***************************************************************************)
(* C4: no row of either export has games_played = 0: every row of the CSV  *)
(* has games_played >= 1, and after a call of export_to_google_sheets that *)
(* returned True every data row of the sheet has games_played >= 1, also   *)
(* when the prior sheet held a row with games_played 0.                    *)
(***************************************************************************)
C4_NoZeroGames ==
    /\ \A j \in DOMAIN csv : csv[j].games_played >= 1
    /\ (last_export.called /\ last_export.returned)
          => \A j \in DOMAIN sheet.rows :
                /\ IsNumericCell(sheet.rows[j].games_played)
                /\ ParseInt(sheet.rows[j].games_played) >= 1

\* the sheet that had 'Zed' with 0 games has been rewritten: the 'DIBBS' row
\* of that sheet is carried over, the 'Zed' row is gone
C4_Witness ==
    /\ last_export.called /\ last_export.returned
    /\ csv # <<>>
    /\ \E j \in DOMAIN sheet.rows :
          sheet.rows[j].username = U_DIBBS /\ sheet.rows[j].last_updated = 0
    /\ RowsNamed(sheet, U_Zed) = {}

(***************************************************************************)
(* C5: the totals per identity key do not depend on how the images are     *)
(* split into runs: for a result list, exporting a first part and then the *)
(* rest against the sheet the first call wrote leaves the same games_played*)
(* and totals per key as one call with the whole list.  Stated as in the   *)
(* claim; it does not hold once a username made of digits is on the sheet. *)
(***************************************************************************)
TotalsPerKey(rows) ==
    {[key |-> username_keys[rows[j].username], totals |-> RowTotals(rows[j])] :
        j \in DOMAIN rows}

\* the sheet after a call with these results in which every API call succeeds
SheetAfterCall(sh, results) ==
    SheetAfter(sh, MergedRows(sh, FALSE, results), "none", 0)

C5_SplitIndependent ==
    pc = "done" =>
       \A n \in 0..Len(all_results) :
          TotalsPerKey(SheetAfterCall(SheetAfterCall(sheet, SubSeq(all_results, 1, n)),
                                      SubSeq(all_results, n + 1, Len(all_results))).rows)
             = TotalsPerKey(SheetAfterCall(sheet, all_results).rows)

(***************************************************************************)
(* C6: a row of the prior sheet with a non-empty username whose identity   *)
(* key does not occur in the run is carried forward unchanged: the         *)
(* rewritten sheet has a row with the same username, games_played and      *)
(* totals.  Stated as in the claim; it does not hold when two prior rows   *)
(* share a key, when a prior row cannot be read, or when it has 0 games.   *)
(***************************************************************************)
SameTotals(r1, r2) ==
    /\ r1.games_played = r2.games_played
    /\ r1.total_eliminations = r2.total_eliminations
    /\ r1.total_deaths = r2.total_deaths
    /\ r1.total_assists = r2.total_assists
    /\ r1.total_damage = r2.total_damage
    /\ r1.total_plants = r2.total_plants
    /\ r1.total_defuses = r2.total_defuses

C6_UnmatchedCarriedForward ==
    [][ExportSucceeds =>
         \A i \in DOMAIN sheet.rows :
            (/\ sheet.rows[i].username # <<>>
             /\ username_keys[sheet.rows[i].username] \notin RunKeys(all_results))
            => \E j \in DOMAIN sheet'.rows :
                  /\ sheet'.rows[j].username = sheet.rows[i].username
                  /\ SameTotals(sheet'.rows[j], sheet.rows[i])]_vars

(***************************************************************************)
(* C7: when the run's entries match an existing record, the written row    *)
(* keeps the existing record's display username, no row shows a spelling   *)
(* of the run for that key, and team and last_updated are those of the     *)
(* run's last processed entry for the key.                                 *)
(***************************************************************************)
C7_KeepsNameTakesTeam ==
    [][ExportSucceeds =>
         \A ex \in Range(existing_data(sheet, FALSE)) :
            ex.key \in RunKeys(all_results) =>
                 /\ \E j \in DOMAIN sheet'.rows :
                       /\ sheet'.rows[j].username = ex.username
                       /\ sheet'.rows[j].team = LastEntry(all_results, ex.key).player.team
                       /\ sheet'.rows[j].last_updated =
                             LastEntry(all_results, ex.key).match_info.timestamp
                 /\ \A j \in DOMAIN sheet'.rows :
                       username_keys[sheet'.rows[j].username] = ex.key
                          => sheet'.rows[j].username = ex.username]_vars

\* the 'DIBBS' row of the prior sheet (team ATK) after a run that showed
\* '2AMDIBBS' on team DEF
C7_Witness ==
    /\ last_export.called /\ last_export.returned
    /\ Len(all_results) = 1 /\ all_results[1].match_info.image_file = 1
    /\ \E j \in DOMAIN sheet.rows :
          /\ sheet.rows[j].username = U_DIBBS
          /\ sheet.rows[j].games_played = <<"2">>
          /\ sheet.rows[j].team = "DEF"
          /\ sheet.rows[j].last_updated = all_results[1].match_info.timestamp
    /\ RowsNamed(sheet, U_2AMDIBBS) = {}

(***************************************************************************)
(* C8: the write is atomic: a call that fails after it has started to      *)
(* modify the sheet leaves either the prior data rows or the merged data   *)
(* rows.  Stated as in the claim; it does not hold when append_rows fails  *)
(* after delete_rows.                                                      *)
(***************************************************************************)
C8_AtomicWrite ==
    [][\A fail \in {"clear", "delete", "append"} :
          ExportToGoogleSheets(fail) =>
             \/ sheet'.rows = sheet.rows
             \/ sheet'.rows = MergedRows(sheet, FALSE, all_results)]_vars

(***************************************************************************)
(* C9: with the duplicate check enabled, an image whose content hash was   *)
(* submitted before is skipped without an oracle call: the oracle is       *)
(* called at most once per hash, and the results of a run hold at most one *)
(* result per hash.                                                        *)
(***************************************************************************)
C9_OneResultPerHash ==
    enable_duplicate_check =>
       /\ \A h \in Hashes : oracle_calls[h] <= 1
       /\ \A i, j \in DOMAIN all_results :
             all_results[i].match_info.image_file = all_results[j].match_info.image_file
                => i = j

\* two submissions, one oracle call: the second had the hash of the first
C9_Witness ==
    /\ enable_duplicate_check
    /\ submitted = 2
    /\ Len(all_results) = 1
    /\ \A h \in Hashes :
          oracle_calls[h] = IF h = all_results[1].match_info.image_file THEN 1 ELSE 0

(***************************************************************************)
(* C10: the alias pairs resolve to one player: '2AMDIBBS' and 'DIBBS' get  *)
(* the same key, 'NVFJJ7' and 'JJ' both get 'jj', and when the two         *)
(* spellings of a pair are on two different images of one run the CSV has  *)
(* one row for the pair, with games_played 2 and the summed stats.         *)
(***************************************************************************)
\* the two spellings are on two different images and nowhere else
C10_OnTwoImages(results, u1, u2) ==
    /\ \E a, b \in DOMAIN results :
          /\ a # b
          /\ \E i \in DOMAIN results[a].players : results[a].players[i].username = u1
          /\ \E i \in DOMAIN results[b].players : results[b].players[i].username = u2
    /\ Len(KeyEntries(results, username_keys[u1])) = 2

C10_OneRow(rows, results, u1, u2) ==
    LET mine == {j \in DOMAIN rows : rows[j].username \in {u1, u2}}
    IN /\ Cardinality(mine) = 1
       /\ \A j \in mine :
             /\ rows[j].games_played = 2
             /\ CsvTotals(rows[j]) =
                   ExistingPlusRun(ZeroRecord(username_keys[u1]), results)

C10_AliasPairsMerge ==
    /\ normalize_username(U_2AMDIBBS) = normalize_username(U_DIBBS)
    /\ normalize_username(U_NVFJJ7) = <<"j","j">>
    /\ normalize_username(U_JJ) = <<"j","j">>
    /\ [][ExportToCsv =>
            /\ C10_OnTwoImages(all_results, U_2AMDIBBS, U_DIBBS)
                  => C10_OneRow(csv', all_results, U_2AMDIBBS, U_DIBBS)
            /\ C10_OnTwoImages(all_results, U_NVFJJ7, U_JJ)
                  => C10_OneRow(csv', all_results, U_NVFJJ7, U_JJ)]_vars

\* a CSV exported from the two images: one row for the pair of DIBBS, with
\* 2 games and 3 + 2 eliminations, one row for the pair of JJ
C10_Witness ==
    /\ pc = "done"
    /\ Len(all_results) = 2
    /\ {all_results[1].match_info.image_file,
        all_results[2].match_info.image_file} = {1, 2}
    /\ \E j \in DOMAIN csv :
          /\ csv[j].username \in {U_2AMDIBBS, U_DIBBS}
          /\ csv[j].games_played = 2
          /\ csv[j].total_eliminations = 5
    /\ \E j \in DOMAIN csv :
          /\ csv[j].username \in {U_NVFJJ7, U_JJ}
          /\ csv[j].games_played = 2
    /\ Len(csv) = 4

(***************************************************************************)
(* C11: normalize_username is idempotent: for every username x,            *)
(* normalize_username(normalize_username(x)) = normalize_username(x).      *)
(* Stated as in the claim; it does not hold for 'Freny', 'Frenzy' or       *)
(* 'TTVRowdYT', which a second application shortens again.                 *)
(***************************************************************************)
C11_Idempotent ==
    Len(norm_out) >= 2 => norm_out[2] = norm_out[1]

(***************************************************************************)
(* C12: a username containing 'anonymous', 'player' or 'newplayer'         *)
(* normalizes to the key 'player', and entries with that key are filtered  *)
(* out, not merged: no CSV row has the key 'player', and a row of the      *)
(* rewritten sheet with that key is a row the sheet already had.  Stated   *)
(* as in the claim; it does not hold for the entries 'ValidPlayer1' and    *)
(* 'ValidPlayer2' of one image, which are summed into one record.          *)
(***************************************************************************)
U_Anonymous == <<"A","n","o","n","y","m","o","u","s">>

U_NewPlayer7 == <<"N","e","w","P","l","a","y","e","r","7">>

PlaceholderNames ==
    {U_Anonymous, U_NewPlayer7, U_ValidPlayer1, U_ValidPlayer2, U_Player1,
     U_Player2}

C12_PlaceholderKeys ==
    \A u \in PlaceholderNames : normalize_username(u) = player_key

C12_PlaceholdersFiltered ==
    [][/\ ExportToCsv =>
            /\ C12_PlaceholderKeys
            /\ \A j \in DOMAIN csv' :
                  username_keys[csv'[j].username] # player_key
       /\ ExportSucceeds =>
            \A j \in DOMAIN sheet'.rows :
               username_keys[sheet'.rows[j].username] = player_key
               => \E i \in DOMAIN sheet.rows :
                     /\ sheet.rows[i].username = sheet'.rows[j].username
                     /\ SameTotals(sheet.rows[i], sheet'.rows[j])]_vars

(***************************************************************************)
(* C13: a cli run that finds no image files or obtains no results ends     *)
(* without output: no CSV is written and export_to_google_sheets is not    *)
(* called.  Otherwise the CSV of the results is written before the sheet   *)
(* export is attempted: whenever export_to_google_sheets has been called,  *)
(* and whenever the run has ended past the early returns, the CSV holds    *)
(* the rows of the run's results.                                          *)
(***************************************************************************)
C13_CsvBeforeSheets ==
    /\ pc \in {"exit_no_images", "exit_no_data"} =>
          /\ all_results = <<>>
          /\ csv = <<>>
          /\ exports = 0 /\ ~last_export.called
    /\ (pc = "done" /\ all_results # <<>>) => (csv = <<>> /\ exports = 0)
    /\ (exports > 0 \/ pc \in {"cli_csv", "exit_done"}) =>
          /\ all_results # <<>>
          /\ csv # <<>>
          /\ csv = CsvRows(all_results)

C13_Witness ==
    /\ pc = "exit_done"
    /\ exports = 1
    /\ last_export.called
    /\ Len(all_results) = 2
    /\ csv = CsvRows(all_results)

(***************************************************************************)
(* C14: a sink failure never costs the flat export: in cli.py main and     *)
(* app_secure.py main, whenever export_to_google_sheets is unavailable or  *)
(* returns False for a non-empty result list, a CSV of the same results    *)
(* has been written by then or is written by the handler.  Stated as in    *)
(* the claim; it does not hold for the "Re-sync to Leaderboard" button of  *)
(* the web app.                                                            *)
(***************************************************************************)
C14_SinkFailureKeepsCsv ==
    [][\A fail \in FailPoints :
          /\ (CliExportSheets(fail) /\ ~Returned(fail))
                => csv' = CsvRows(all_results)
          /\ (AppUpdateLeaderboard(fail) /\ ~Returned(fail))
                => csv' = CsvRows(all_results)
          /\ AppNoClient => csv' = CsvRows(all_results)
          /\ (AppResync(fail) /\ ~Returned(fail))
                => csv' = CsvRows(last_results)]_vars

(***************************************************************************)
(* C15: a failure while one image is processed (oracle error, unparseable  *)
(* response, unreadable file) is confined to that image: process_image     *)
(* returns no result without raising and process_images_with_context goes  *)
(* on with the remaining images, with the results so far, whether or not   *)
(* the duplicate check is enabled.  Stated as in the claim; it does not    *)
(* hold for an unreadable file when the duplicate check is enabled.        *)
(***************************************************************************)
C15_ImageFailureConfined ==
    [][(pc = "processing" /\ submitted < MaxImages
        /\ (ProcessImageUnreadable \/ \E h \in Hashes : ProcessImageFails(h)))
       => (pc' = "processing" /\ all_results' = all_results)]_vars

(***************************************************************************)
(* C16: when no model is configured the cli run aborts before any image is *)
(* processed, and the failure is distinct from a run in which every image  *)
(* failed: no hash is taken, the oracle is not called, and the run does    *)
(* not end at the "no data extracted" return that a run of failed images   *)
(* ends at.  Stated as in the claim; it does not hold: cli.py never looks  *)
(* at processor.model.                                                     *)
(***************************************************************************)
C16_NoModelAborts ==
    ~model =>
       /\ processed_hashes = {}
       /\ \A h \in Hashes : oracle_calls[h] = 0
       /\ pc # "exit_no_data"

(***************************************************************************)
(* C17: the round trip through the leaderboard is lossless: once           *)
(* export_to_google_sheets has written the snapshot and returned True,     *)
(* calling it again with no new images reads the snapshot back and writes  *)
(* the same records: the same usernames, each with the same games_played   *)
(* and cumulative totals.  Stated as in the claim; it does not hold when   *)
(* the snapshot holds the username '123'.                                  *)
(***************************************************************************)
NamedTotals(rows) ==
    {[username |-> rows[j].username, totals |-> RowTotals(rows[j])] :
        j \in DOMAIN rows}

C17_RoundTripLossless ==
    (last_export.called /\ last_export.returned) =>
       NamedTotals(SheetAfterCall(sheet, <<>>).rows) = NamedTotals(sheet.rows)

(***************************************************************************)
(* C18: the known-player context is read once, before the first image of   *)
(* a run, and the same list, of at most 100 names, is passed to every      *)
(* oracle call of the run: while images are processed existing_players     *)
(* stays what _get_existing_players returned at the start, whatever the    *)
(* earlier images of the run held, and every prompt of the run is built    *)
(* from it.  A sheet of 101 players gives a context of 100 names.          *)
(***************************************************************************)
\* a leaderboard of 101 players 'Z1' .. 'Z101'
C18_LargeSheet ==
    [header |-> standard_headers,
     rows |-> [i \in 1..(context_limit + 1) |->
                 SheetRow(0, <<"Z">> \o FormatInt(i), FormatInt(1 + (i % 5)),
                          i, 0, 1, 0, 0, "ATK", 10)]]

C18_ContextLimited ==
    /\ Len(ContextPlayers(C18_LargeSheet)) = context_limit + 1
    /\ Len(get_existing_players(C18_LargeSheet, FALSE)) = context_limit
    /\ PromptPlayers(get_existing_players(C18_LargeSheet, FALSE))
          = get_existing_players(C18_LargeSheet, FALSE)

C18_ContextReadOnce ==
    [][/\ C18_ContextLimited
       /\ \A read_fails \in BOOLEAN :
             StartRun(read_fails) =>
                /\ existing_players' = get_existing_players(sheet, read_fails)
                /\ Len(existing_players') <= context_limit
                /\ run_prompts' = {}
       /\ (pc = "processing" /\ pc' = "processing") =>
             /\ existing_players' = existing_players
             /\ run_prompts' \subseteq {existing_players}]_vars

C18_Witness ==
    /\ pc = "processing"
    /\ Len(all_results) = 2
    /\ existing_players = <<U_quintin, U_Player1, U_DIBBS, U_Player2, U_Zed>>
    /\ run_prompts = {existing_players}

(***************************************************************************)
(* C20: both exports are ordered by kd_ratio descending, and rows of equal *)
(* kd_ratio keep their insertion order: in the CSV the order in which the  *)
(* keys first occur in the results, in the sheet the existing records in   *)
(* the order read, then the new keys in the order they first occur.        *)
(***************************************************************************)
\* the position of the first entry of key k in a result list
FirstSeenAt(results, k) ==
    LET es == NonBlankEntries(results)
    IN CHOOSE n \in DOMAIN es :
          /\ username_keys[es[n].player.username] = k
          /\ \A m \in 1..(n - 1) : username_keys[es[m].player.username] # k

\* the position of key k in combined_data
InsertionRank(ex, results, k) ==
    IF HasKey(ex, k) THEN IndexOf(ex, k)
    ELSE Len(ex) + FirstSeenAt(results, k)

C20_SortedByKdStable ==
    [][/\ ExportToCsv =>
            \A i, j \in DOMAIN csv' :
               i < j =>
                  \/ csv'[i].kd_ratio > csv'[j].kd_ratio
                  \/ /\ csv'[i].kd_ratio = csv'[j].kd_ratio
                     /\ FirstSeenAt(all_results, username_keys[csv'[i].username])
                           < FirstSeenAt(all_results,
                                         username_keys[csv'[j].username])
       /\ ExportSucceeds =>
            LET ex == existing_data(sheet, FALSE)
                rows == sheet'.rows
            IN \A i, j \in DOMAIN rows :
                  i < j =>
                     \/ rows[i].kd_ratio > rows[j].kd_ratio
                     \/ /\ rows[i].kd_ratio = rows[j].kd_ratio
                        /\ InsertionRank(ex, all_results,
                                         username_keys[rows[i].username])
                              < InsertionRank(ex, all_results,
                                              username_keys[rows[j].username])]_vars

C20_Witness ==
    /\ pc = "done"
    /\ last_export.called /\ last_export.returned
    /\ Len(csv) = 3
    /\ csv[1].kd_ratio = csv[2].kd_ratio
    /\ csv[2].kd_ratio > csv[3].kd_ratio
    /\ \E i \in DOMAIN sheet.rows :
          /\ i + 1 \in DOMAIN sheet.rows
          /\ sheet.rows[i].kd_ratio = sheet.rows[i + 1].kd_ratio

(***************************************************************************)
(* C21: the single-letter prefix step of normalize_username fires whenever *)
(* the string reaching it starts with one of z, x, q, b, c, s, the rest is *)
(* at least 4 characters long and starts with one of 'aeioudhmnprstl'; in  *)
(* particular for a 5-character string.  Stated as in the claim; it does   *)
(* not hold for 'Sarah'.                                                   *)
(***************************************************************************)
C21_SingleLetterFires ==
    (Len(norm_out) >= 1 /\ ReachesStages(norm_in)) =>
       LET n == Stages(norm_in).single_letter
       IN (/\ Len(n) - 1 >= 4
           /\ n[1] \in single_letters
           /\ n[2] \in name_starts)
          => /\ StripSingleLetter(n) = DropFirst(n, 1)
             /\ norm_out[1] = Strip(SafetyCheck(StripTrailingYZ(DropFirst(n, 1)),
                                                Strip(norm_in)))

(***************************************************************************)
(* C22: the trailing-letter step of normalize_username strips one final    *)
(* 'y' or 'z' whenever the rest is at least 3 characters long, so that a   *)
(* 4-character string ending in 'y' or 'z' outside the specific-fixes      *)
(* table loses its last letter, and it strips at most one letter.  Stated  *)
(* as in the claim; it does not hold for 'Kody'.                           *)
(***************************************************************************)
C22_TrailingLetterStripped ==
    (Len(norm_out) >= 1 /\ ReachesStages(norm_in)) =>
       LET n == Stages(norm_in).trailing
       IN /\ Len(StripTrailingYZ(n)) >= Len(n) - 1
          /\ (/\ Len(n) - 1 >= 3
              /\ n[Len(n)] \in {"y", "z"})
             => /\ StripTrailingYZ(n) = DropLast(n, 1)
                /\ norm_out[1] = Strip(SafetyCheck(DropLast(n, 1), Strip(norm_in)))

(***************************************************************************)
(* C23: normalize_username removes a decorative numeric prefix, a digit    *)
(* followed by 'am' or 'kt', whenever at least 4 letters remain, for every *)
(* username: '2AMSKELETO' obtains the key of 'SKELETO'.  Stated as in the  *)
(* claim; it does not hold, the digit is gone before the step looks for it.*)
(***************************************************************************)
C23_NumericPrefixRemoved ==
    (/\ Len(norm_out) >= 1
     /\ Len(norm_in) >= 3
     /\ norm_in[1] \in Digits
     /\ Lower(SubSeq(norm_in, 2, 3)) \in {<<"a", "m">>, <<"k", "t">>}
     /\ Len(LettersOnly(DropFirst(norm_in, 3))) >= 4)
    => norm_out[1] = normalize_username(DropFirst(norm_in, 3))

\* is the k-th entry of a result list counted by export_to_csv
C24_Counted(e) ==
    /\ ~IsBlank(e.player.username)
    /\ ~IsBlank(username_keys[e.player.username])

\* the games, victories and defeats of identity key k in an aggregate
C24_Tally(agg, k) ==
    IF HasKey(agg, k)
    THEN LET r == agg[IndexOf(agg, k)]
         IN <<r.games_played, r.victories, r.defeats>>
    ELSE <<0, 0, 0>>

(***************************************************************************)
(* C24: in the aggregate export_to_csv builds from the results of a run,   *)
(* after each processed entry every record has games_played = victories +  *)
(* defeats and games_played >= 1; a counted entry adds one to games_played *)
(* and one to victories if its match_result is 'VICTORY', else to defeats. *)
(***************************************************************************)
C24_GamesAreWinsPlusLosses ==
    LET es == Entries(all_results)
    IN \A n \in DOMAIN es :
         LET before == FoldCsv(<<>>, SubSeq(es, 1, n - 1))
             after == FoldCsv(<<>>, SubSeq(es, 1, n))
             k == username_keys[es[n].player.username]
             won == es[n].match_info.match_result = "VICTORY"
             old == C24_Tally(before, k)
         IN /\ \A i \in DOMAIN after :
                  /\ after[i].games_played = after[i].victories + after[i].defeats
                  /\ after[i].games_played >= 1
            /\ IF C24_Counted(es[n])
               THEN C24_Tally(after, k) =
                      <<old[1] + 1,
                        old[2] + (IF won THEN 1 ELSE 0),
                        old[3] + (IF won THEN 0 ELSE 1)>>
               ELSE after = before

\* a run in which 'dibbs' lost one game and won another has been exported
C24_Witness ==
    /\ csv # <<>>
    /\ csv = CsvRows(all_results)
    /\ C24_Tally(player_aggregates(all_results), username_keys[U_DIBBS]) = <<2, 1, 1>>

\* does a summary entry carry the games and totals of a CSV row
C25_SameTotals(entry, row) ==
    /\ entry.games = row.games_played
    /\ entry.total_eliminations = row.total_eliminations
    /\ entry.total_deaths = row.total_deaths
    /\ entry.total_assists = row.total_assists
    /\ entry.total_damage = row.total_damage
    /\ entry.total_plants = row.total_plants
    /\ entry.total_defuses = row.total_defuses

(***************************************************************************)
(* C25: the summary cli.py prints renders the aggregate the CSV export     *)
(* writes: create_summary_stats yields one entry per resolved identity,    *)
(* with the games count and the totals of that identity's export_to_csv    *)
(* row, and no entry for a blank username.  Stated as in the claim; it     *)
(* does not hold, the summary groups by the raw username.                  *)
(***************************************************************************)
C25_SummaryMatchesCsv ==
    pc = "exit_done" =>
       /\ Len(summary) = Len(csv)
       /\ \A i \in DOMAIN summary :
             /\ ~IsBlank(summary[i].key)
             /\ \E j \in DOMAIN csv :
                   /\ username_keys[csv[j].username] = username_keys[summary[i].key]
                   /\ C25_SameTotals(summary[i], csv[j])

\* the rows of a sheet that resolve to identity key k
C26_RowsOfKey(sh, k) ==
    {j \in DOMAIN sh.rows : username_keys[sh.rows[j].username] = k}

\* the merged records a call writes: those with at least one game
C26_Merged(sh, read_fails, results) ==
    SelectSeq(combined_data(existing_data(sh, read_fails),
                            new_player_data(results)), HasGames)

(***************************************************************************)
(* C26: after a call of export_to_google_sheets that returned True the     *)
(* sheet is one header row followed by exactly one row per merged record   *)
(* (a record with at least one game), no prior data row remaining beside   *)
(* them; the header row is the one the sheet had when that had at least 10 *)
(* cells, else the standard header of 17 columns.                          *)
(***************************************************************************)
C26_FullReplace ==
    [][\A fail \in {"none", "read"} :
         CliExportSheets(fail) =>
            LET merged == C26_Merged(sheet, fail = "read", all_results)
            IN /\ last_export'.returned
               /\ Len(sheet'.rows) = Len(merged)
               /\ \A i \in DOMAIN merged :
                     Cardinality(C26_RowsOfKey(sheet', merged[i].key)) = 1
               /\ sheet'.header = IF Len(sheet.header) >= 10 THEN sheet.header
                                  ELSE standard_headers
               /\ Len(sheet'.header) >= 17]_vars

\* the sheet with a header of 18 cells has been rewritten: its header is in
\* place, the row of 'DIBBS' is merged with the run, the row of 'Zed' is gone
C26_Witness ==
    /\ pc = "exit_done"
    /\ last_export.called /\ last_export.returned
    /\ sheet.header = WideHeaderSheet.header
    /\ Cardinality(C26_RowsOfKey(sheet, username_keys[U_DIBBS])) = 1
    /\ \E j \in DOMAIN sheet.rows : sheet.rows[j].last_updated > 0
    /\ RowsNamed(sheet, U_Zed) = {}

\* the oracle calls made so far
C27_OracleCalls == SumSeq([h \in Hashes |-> oracle_calls[h]])

(***************************************************************************)
(* C27: with the duplicate check enabled the content hash is recorded in   *)
(* processed_hashes before the extraction is attempted and is never        *)
(* removed: every hash the oracle was called for is in processed_hashes,   *)
(* also when the extraction failed, and a later submission of that content *)
(* is skipped as a duplicate, so the oracle is not called for it again.    *)
(***************************************************************************)
C27_FailedHashRecorded ==
    enable_duplicate_check =>
       \A h \in Hashes :
          oracle_calls[h] >= 1 => (h \in processed_hashes /\ oracle_calls[h] = 1)

\* an extraction failed and the same content was submitted again: two
\* submissions, one oracle call, no result
C27_Witness ==
    /\ enable_duplicate_check
    /\ model
    /\ pc = "processing"
    /\ submitted = 2
    /\ all_results = <<>>
    /\ C27_OracleCalls = 1
    /\ \E h \in Hashes : oracle_calls[h] = 1 /\ h \in processed_hashes

\* the row of identity key k, in a sheet that has exactly one
C28_Row(sh, k) == sh.rows[CHOOSE j \in C26_RowsOfKey(sh, k) : TRUE]

\* the sheet is what one export of these results wrote: each identity of the
\* results has one row, stamped with the time of its last entry
C28_WrittenFrom(sh, results) ==
    \A k \in RunKeys(results) :
       /\ Cardinality(C26_RowsOfKey(sh, k)) = 1
       /\ C28_Row(sh, k).last_updated = LastEntry(results, k).match_info.timestamp

\* the cumulative cells of row `after` are those of row `before` plus the run's
C28_AddedAgain(before, after, results, k) ==
    RowTotals(after) =
       [games_played |-> RowTotals(before).games_played + Len(KeyEntries(results, k)),
        total_eliminations |->
           RowTotals(before).total_eliminations + RunTotal(results, k, "eliminations"),
        total_deaths |-> RowTotals(before).total_deaths + RunTotal(results, k, "deaths"),
        total_assists |-> RowTotals(before).total_assists + RunTotal(results, k, "assists"),
        total_damage |-> RowTotals(before).total_damage + RunTotal(results, k, "damage"),
        total_plants |-> RowTotals(before).total_plants + RunTotal(results, k, "plants"),
        total_defuses |-> RowTotals(before).total_defuses + RunTotal(results, k, "defuses")]

(***************************************************************************)
(* C28: export_to_google_sheets keeps no record of what it has merged: a   *)
(* second successful call with the same results, against the sheet the     *)
(* first call wrote, adds the run's contribution a second time; this is    *)
(* what "Re-sync to Leaderboard" does after a successful "Update           *)
(* Leaderboard".  Stated as in the claim; it does not hold when the first  *)
(* call wrote a username made of digits.                                   *)
(***************************************************************************)
C28_ResyncAddsTwice ==
    [][(/\ AppResync("none")
        /\ exports = 1
        /\ last_export.called /\ last_export.returned
        /\ C28_WrittenFrom(sheet, last_results))
       => \A k \in RunKeys(last_results) :
             /\ Cardinality(C26_RowsOfKey(sheet', k)) = 1
             /\ C28_AddedAgain(C28_Row(sheet, k), C28_Row(sheet', k),
                               last_results, k)]_vars

\* the cumulative values of identity key k in a result list alone
C29_RunOnly(results, k) ==
    [games_played |-> Len(KeyEntries(results, k)),
     total_eliminations |-> RunTotal(results, k, "eliminations"),
     total_deaths |-> RunTotal(results, k, "deaths"),
     total_assists |-> RunTotal(results, k, "assists"),
     total_damage |-> RunTotal(results, k, "damage"),
     total_plants |-> RunTotal(results, k, "plants"),
     total_defuses |-> RunTotal(results, k, "defuses")]

(***************************************************************************)
(* C29: when reading the existing leaderboard raises (the read itself, or  *)
(* parsing a row, e.g. a cell that is not an integer),                     *)
(* export_to_google_sheets takes the snapshot to be empty, goes on with    *)
(* the write and returns True: the full replace removes every prior row    *)
(* and only the players of the new run remain, with the run's values.      *)
(***************************************************************************)
C29_ReadErrorWipesSnapshot ==
    [][\A fail \in {"none", "read"} :
         (CliExportSheets(fail) /\ (fail = "read" \/ ReadRaises(sheet)))
            => /\ last_export'.returned
               /\ Len(sheet'.rows) = Cardinality(RunKeys(all_results))
               /\ \A k \in RunKeys(all_results) :
                     /\ Cardinality(C26_RowsOfKey(sheet', k)) = 1
                     /\ RowTotals(C28_Row(sheet', k)) = C29_RunOnly(all_results, k)]_vars

\* the sheet with the header of 18 cells held a row of 'DIBBS'; after a call
\* that returned True it has rows of the run only, none of them for 'dibbs'
C29_Witness ==
    /\ pc = "exit_done"
    /\ last_export.called /\ last_export.returned
    /\ sheet.header = WideHeaderSheet.header
    /\ sheet.rows # <<>>
    /\ C26_RowsOfKey(sheet, username_keys[U_DIBBS]) = {}
    /\ \A j \in DOMAIN sheet.rows : sheet.rows[j].last_updated > 0

\* the sum of two records of cumulative values
C30_Plus(a, b) ==
    [games_played |-> a.games_played + b.games_played,
     total_eliminations |-> a.total_eliminations + b.total_eliminations,
     total_deaths |-> a.total_deaths + b.total_deaths,
     total_assists |-> a.total_assists + b.total_assists,
     total_damage |-> a.total_damage + b.total_damage,
     total_plants |-> a.total_plants + b.total_plants,
     total_defuses |-> a.total_defuses + b.total_defuses]

(***************************************************************************)
(* C30: when two rows of the existing leaderboard normalise to one key     *)
(* ('Player1' and 'Player2' both give 'player'), export_to_google_sheets   *)
(* takes the later row alone as the existing record: the rewritten sheet   *)
(* has one row for the key, under the later row's name, with the later     *)
(* row's games and totals plus the run's; the earlier row's values are not *)
(* summed in and the earlier row is absent.                                *)
(***************************************************************************)
C30_LaterRowWins ==
    [][(CliExportSheets("none") /\ ~ReadRaises(sheet))
       => \A i, j \in DOMAIN sheet.rows :
             (/\ i < j
              /\ username_keys[sheet.rows[i].username]
                    = username_keys[sheet.rows[j].username]
              /\ \A l \in C26_RowsOfKey(sheet, username_keys[sheet.rows[j].username]) :
                    l <= j)
             => LET k == username_keys[sheet.rows[j].username]
                IN /\ Cardinality(C26_RowsOfKey(sheet', k)) = 1
                   /\ C28_Row(sheet', k).username = sheet.rows[j].username
                   /\ RowTotals(C28_Row(sheet', k))
                         = C30_Plus(RowTotals(sheet.rows[j]),
                                    C29_RunOnly(all_results, k))
                   /\ RowsNamed(sheet', sheet.rows[i].username) = {}]_vars

\* the sheet that held 'Player1' and 'Player2' has been rewritten: it has
\* the row of 'Player2' and no row of 'Player1'
C30_Witness ==
    /\ pc = "exit_done"
    /\ last_export.called /\ last_export.returned
    /\ RowsNamed(sheet, U_Player2) # {}
    /\ RowsNamed(sheet, U_Player1) = {}

====
